---------------------------- MODULE Spec2Model ----------------------------
(***************************************************************************)
(* Hybrid retrieval and knowledge-graph ingestion of the research          *)
(* assistant: the Neo4j graph store, the Qdrant vector store, the Gemini   *)
(* entity extractor, the ingestion pipeline and hybrid_search; and its     *)
(* HTTP API with the table of episodes.                                    *)
(*                                                                         *)
(* Python values are modelled as follows.  A dict is a function whose      *)
(* domain is its set of keys, a list is a sequence, None is the value      *)
(* None below.  A formatted message f"prefix{x}" is the sequence of its    *)
(* fragments <<"prefix", x>>.  An exception that leaves a function is the  *)
(* field exc of the value the operator returns (None: it returned).        *)
(***************************************************************************)
EXTENDS Integers, Sequences, FiniteSets, TLC

VARIABLES
    graph,       \* the Neo4j database: [nodes, edges]
    points,      \* the points of the Qdrant collection, in upsert order
    collection,  \* whether the Qdrant collection exists
    run,         \* run[r]: the frame of invocation r of ingest_url
    last,        \* the outcome of the last direct call of a store function
    report,      \* the last call, when it was one of hybrid_search: its outcome
    session_service,  \* api.py: the sessions of the InMemorySessionService
    active_runners,   \* api.py: the dict active_runners
    runners_made,     \* the number of Runner objects constructed so far
    episodes,         \* the rows of the table episodes, oldest first
    req               \* req[c]: the frame of the HTTP request of client c

vars == <<graph, points, collection, run, last, report,
          session_service, active_runners, runners_made, episodes, req>>

\* The state of the HTTP API, and the state of the stores.
ApiVars == <<session_service, active_runners, runners_made, episodes, req>>
StoreVars == <<graph, points, collection, run, last, report>>

\* Python's None where a string (a name, a title, an exception) is expected.
None == "None"

\* A value that is a list or null (a JSON array or null, a Python list or
\* None): List(s) carries the sequence s, Null carries nothing.
List(s) == [t |-> "list", v |-> s]
Null == [t |-> "null"]

\* The empty dict {}.
EmptyDict == << >>

\* d.get(k, default)
Get(d, k, default) == IF k \in DOMAIN d THEN d[k] ELSE default

\* The characters of the strings of the model.
Chars ==
    ("" :> <<>>) @@
    ("   " :> <<" ", " ", " ">>) @@
    ("Transformers use self-attention." :> <<"T", "r", "a", "n", "s", "f", "o", "r", "m", "e", "r", "s", " ", "u", "s", "e", " ", "s", "e", "l", "f", "-", "a", "t", "t", "e", "n", "t", "i", "o", "n", ".">>) @@
    ("Alpha. Beta." :> <<"A", "l", "p", "h", "a", ".", " ", "B", "e", "t", "a", ".">>) @@
    ("Alpha." :> <<"A", "l", "p", "h", "a", ".">>) @@
    ("Beta." :> <<"B", "e", "t", "a", ".">>) @@
    ("T" :> <<"T">>) @@
    ("U" :> <<"U">>) @@
    ("X" :> <<"X">>) @@
    ("Y" :> <<"Y">>) @@
    ("Transformer" :> <<"T", "r", "a", "n", "s", "f", "o", "r", "m", "e", "r">>) @@
    ("self-attention" :> <<"s", "e", "l", "f", "-", "a", "t", "t", "e", "n", "t", "i", "o", "n">>) @@
    ("SELF-ATTENTION" :> <<"S", "E", "L", "F", "-", "A", "T", "T", "E", "N", "T", "I", "O", "N">>) @@
    ("the Transformer" :> <<"t", "h", "e", " ", "T", "r", "a", "n", "s", "f", "o", "r", "m", "e", "r">>) @@
    ("T X" :> <<"T", " ", "X">>)

Whitespace == {" "}

\* str.lower() on the characters of the model.
UpperCase == <<"A", "B", "C", "E", "F", "I", "L", "N", "O", "R", "S", "T", "U", "X", "Y">>
LowerCase == <<"a", "b", "c", "e", "f", "i", "l", "n", "o", "r", "s", "t", "u", "x", "y">>
ToLower(cs) ==
    [i \in 1..Len(cs) |->
        IF \E j \in 1..Len(UpperCase) : UpperCase[j] = cs[i]
          THEN LowerCase[CHOOSE j \in 1..Len(UpperCase) : UpperCase[j] = cs[i]]
          ELSE cs[i]]

\* Cypher "hay CONTAINS needle" on character sequences.
Contains(hay, needle) ==
    \E i \in 0..(Len(hay) - Len(needle)) : SubSeq(hay, i + 1, i + Len(needle)) = needle

\* str.split(): the maximal runs of characters that are not whitespace.
RECURSIVE SplitFrom(_, _, _)
SplitFrom(cs, i, word) ==
    IF i > Len(cs) THEN (IF word = << >> THEN << >> ELSE <<word>>)
    ELSE IF cs[i] \in {" "}
      THEN (IF word = << >> THEN << >> ELSE <<word>>) \o SplitFrom(cs, i + 1, << >>)
      ELSE SplitFrom(cs, i + 1, Append(word, cs[i]))
Split(cs) == SplitFrom(cs, 1, << >>)

\* "not s or not s.strip()" for a string s.
IsBlank(s) == \A i \in 1..Len(Chars[s]) : Chars[s][i] \in Whitespace

(***************************************************************************)
(* backend/storage/neo4j_store.py                                          *)
(***************************************************************************)

ENTITY_TYPES == {"Article", "Author", "Topic", "Technology", "Company", "Concept"}

\* RELATIONSHIP_TYPES: relation |-> <<source type, set of target types>>.
RELATIONSHIP_TYPES ==
    [WRITTEN_BY   |-> <<"Article", {"Author"}>>,
     ABOUT_TOPIC  |-> <<"Article", {"Topic"}>>,
     MENTIONS     |-> <<"Article", {"Technology", "Company", "Concept"}>>,
     RELATED_TO   |-> <<"Topic", {"Topic"}>>,
     USES         |-> <<"Technology", {"Technology"}>>,
     DEVELOPED_BY |-> <<"Technology", {"Company"}>>]

\* The empty database.  A node is [label, k, props]: its label, its
\* properties (name among them) and its rank k among the nodes of its label
\* and name, in the order of their creation.  A name is never changed and
\* nothing is deleted, so <<label, name, k>> is the identity of the node.
\* An edge is [rel, src, dst, k] over node identities, k its rank among the
\* rel edges from src to dst.
EmptyGraph == [nodes |-> {}, edges |-> {}]

NodeId(n) == <<n.label, n.props.name, n.k>>

\* What a graph-store function hands back: the database afterwards, the
\* exception that left it (None: it returned) and the number of queries
\* (session.run) it issued.
Outcome(g, exc, queries) == [g |-> g, exc |-> exc, queries |-> queries]

\* Cypher "SET n += $props": the keys of p overwrite, the others are kept.
Overlay(q, p) ==
    [k \in (DOMAIN q) \cup (DOMAIN p) |-> IF k \in DOMAIN p THEN p[k] ELSE q[k]]

\* The nodes that "(n:label {name: $name})" matches.
MatchNodes(g, label, name) ==
    {n \in g.nodes : n.label = label /\ n.props.name = name}

\* Cypher "CREATE (n:label {name: $name}) SET n += $props": always a new node.
CreateNodeAlways(g, label, name, props) ==
    [g EXCEPT !.nodes = @ \cup {[label |-> label,
                                  k |-> Cardinality(MatchNodes(g, label, name)) + 1,
                                  props |-> Overlay([name |-> name], props)]}]

\* Cypher "MERGE (n:label {name: $name}) ON CREATE SET n += $props": a
\* matched node is left as it is.
MergeNodeSettingOnCreate(g, label, name, props) ==
    LET hit == MatchNodes(g, label, name) IN
    IF hit = {}
      THEN [g EXCEPT !.nodes = @ \cup {[label |-> label, k |-> 1,
                                        props |-> Overlay([name |-> name], props)]}]
      ELSE g

\* Cypher "MERGE (n:label {name: $name}) SET n = $props": the properties of
\* a matched node are replaced by props.
MergeNodeReplacing(g, label, name, props) ==
    LET hit == MatchNodes(g, label, name) IN
    IF hit = {}
      THEN [g EXCEPT !.nodes = @ \cup {[label |-> label, k |-> 1,
                                        props |-> Overlay([name |-> name], props)]}]
      ELSE [g EXCEPT !.nodes = (@ \ hit)
                \cup {[n EXCEPT !.props = Overlay([name |-> name], props)] : n \in hit}]

\* Cypher "MERGE (n:label {name: $name}) SET n += $props": every node the
\* pattern matches is updated; a node is created only when none matches.
MergeNode(g, label, name, props) ==
    LET hit == MatchNodes(g, label, name) IN
    IF hit = {}
      THEN [g EXCEPT !.nodes = @ \cup {[label |-> label, k |-> 1,
                                        props |-> Overlay([name |-> name], props)]}]
      ELSE [g EXCEPT !.nodes = (@ \ hit)
                \cup {[n EXCEPT !.props = Overlay(@, props)] : n \in hit}]

\* create_entity without its allow-list test (lines 68-69 dropped).
create_entity_unchecked(g, up, entity_type, name, properties) ==
    LET props == Overlay(properties, [name |-> name]) IN
    IF ~up THEN Outcome(g, "ServiceUnavailable", 1)
    ELSE IF name = None THEN Outcome(g, "CypherError", 1)
    ELSE Outcome(MergeNode(g, entity_type, name, props), None, 1)

\* create_entity(entity_type, name, properties) on database g; up says
\* whether the store answers the query.  properties is the dict that
\* "properties or {}" yields (EmptyDict when the caller passes none).  MERGE
\* on a null name is rejected by Neo4j.
create_entity(g, up, entity_type, name, properties) ==
    IF entity_type \notin ENTITY_TYPES THEN Outcome(g, "ValueError", 0)
    ELSE
    LET props == Overlay(properties, [name |-> name]) IN
    IF ~up THEN Outcome(g, "ServiceUnavailable", 1)
    ELSE IF name = None THEN Outcome(g, "CypherError", 1)
    ELSE Outcome(MergeNode(g, entity_type, name, props), None, 1)

\* The rows of "MATCH (a:from_type {name: $from_name}) MATCH (b:to_type
\* {name: $to_name})": the pairs of identities of the matched nodes.
MatchRows(g, from_type, from_name, to_type, to_name) ==
    {<<NodeId(a), NodeId(b)>> : a \in MatchNodes(g, from_type, from_name),
                                b \in MatchNodes(g, to_type, to_name)}

\* The rel edges from a to b.
EdgesBetween(g, rel, a, b) ==
    {e \in g.edges : e.rel = rel /\ e.src = a /\ e.dst = b}

\* Cypher "CREATE (a)-[r:rel]->(b)" per row: always a new edge.
CreateEdgesAlways(g, rel, rows) ==
    [g EXCEPT !.edges = @ \cup
        {[rel |-> rel, src |-> row[1], dst |-> row[2],
          k |-> Cardinality(EdgesBetween(g, rel, row[1], row[2])) + 1] : row \in rows}]

\* Cypher "MERGE (a)-[r:rel]->(b)" per row: an edge is created only when
\* a has no rel edge to b yet.
MergeEdges(g, rel, rows) ==
    [g EXCEPT !.edges = @ \cup
        {[rel |-> rel, src |-> row[1], dst |-> row[2], k |-> 1] :
            row \in {x \in rows : EdgesBetween(g, rel, x[1], x[2]) = {}}}]

\* create_relationship with the endpoints merged instead of matched.
create_relationship_merging(g, up, from_type, from_name, relationship, to_type, to_name) ==
    IF ~up THEN Outcome(g, "ServiceUnavailable", 1)
    ELSE LET g1 == MergeNode(g, from_type, from_name, EmptyDict)
             g2 == MergeNode(g1, to_type, to_name, EmptyDict)
         IN Outcome(MergeEdges(g2, relationship,
                               MatchRows(g2, from_type, from_name, to_type, to_name)),
                    None, 1)

\* create_relationship(from_type, from_name, relationship, to_type, to_name)
\* on database g.  No argument is validated; a MATCH without rows ends
\* the query with no row and no error, and result.single() is then None.
create_relationship(g, up, from_type, from_name, relationship, to_type, to_name) ==
    IF ~up THEN Outcome(g, "ServiceUnavailable", 1)
    ELSE Outcome(MergeEdges(g, relationship,
                            MatchRows(g, from_type, from_name, to_type, to_name)),
                 None, 1)

\* One step of store_article_with_entities: a call of create_entity, a call
\* of create_relationship, or the TypeError of a for loop over None.
EntityOp(entity_type, name, properties) ==
    [op |-> "create_entity", type |-> entity_type, name |-> name, props |-> properties]
RelOp(from_type, from_name, relationship, to_type, to_name) ==
    [op |-> "create_relationship", from_type |-> from_type, from_name |-> from_name,
     rel |-> relationship, to_type |-> to_type, to_name |-> to_name]
RaiseOp == [op |-> "TypeError"]

\* "for x in items: create_entity(entity_type, x);
\*  create_relationship("Article", title, relationship, entity_type, x)"
RECURSIVE LoopOps(_, _, _, _)
LoopOps(title, relationship, entity_type, items) ==
    IF items = Null THEN <<RaiseOp>>
    ELSE IF items.v = << >> THEN << >>
    ELSE <<EntityOp(entity_type, Head(items.v), EmptyDict),
           RelOp("Article", title, relationship, entity_type, Head(items.v))>>
         \o LoopOps(title, relationship, entity_type, List(Tail(items.v)))

\* The steps up to and including the first that raises by itself.
RECURSIVE UpToRaise(_)
UpToRaise(ops) ==
    IF ops = << >> THEN << >>
    ELSE IF Head(ops) = RaiseOp THEN <<RaiseOp>>
    ELSE <<Head(ops)>> \o UpToRaise(Tail(ops))

\* The calls store_article_with_entities(article_data) makes, in order.
ArticleOps(article_data) ==
    LET title == Get(article_data, "title", None)
        url == Get(article_data, "source_url", "")
    IN UpToRaise(
         <<EntityOp("Article", title,
                    [url |-> url, domain |-> Get(article_data, "domain", "")])>>
         \o LoopOps(title, "WRITTEN_BY", "Author", Get(article_data, "authors", List(<< >>)))
         \o LoopOps(title, "ABOUT_TOPIC", "Topic", Get(article_data, "topics", List(<< >>)))
         \o LoopOps(title, "MENTIONS", "Technology", Get(article_data, "technologies", List(<< >>)))
         \o LoopOps(title, "MENTIONS", "Company", Get(article_data, "companies", List(<< >>)))
         \o LoopOps(title, "MENTIONS", "Concept", Get(article_data, "concepts", List(<< >>))))

\* One step on database g.
ApplyOp(g, up, o) ==
    IF o.op = "create_entity" THEN create_entity(g, up, o.type, o.name, o.props)
    ELSE IF o.op = "create_relationship"
      THEN create_relationship(g, up, o.from_type, o.from_name, o.rel, o.to_type, o.to_name)
    ELSE Outcome(g, "TypeError", 0)

\* store_article_with_entities as one transaction: a failure undoes what
\* the earlier steps wrote.
RECURSIVE ApplyOpsInOrder(_, _, _, _)
ApplyOpsInOrder(g, ops, failAt, queries) ==
    IF ops = << >> THEN [g |-> g, exc |-> None, queries |-> queries]
    ELSE LET r == ApplyOp(g, failAt # queries + 1, Head(ops)) IN
         IF r.exc # None THEN [g |-> r.g, exc |-> r.exc, queries |-> queries + r.queries]
         ELSE ApplyOpsInOrder(r.g, Tail(ops), failAt, queries + r.queries)
ApplyOpsRollingBack(g, ops, failAt, queries) ==
    LET r == ApplyOpsInOrder(g, ops, failAt, queries) IN
    IF r.exc # None THEN [r EXCEPT !.g = g] ELSE r

\* The steps ops in order on database g, the store failing at its
\* failAt-th query (0: never).  The first exception ends the run; what the
\* earlier steps wrote stays.
RECURSIVE ApplyOps(_, _, _, _)
ApplyOps(g, ops, failAt, queries) ==
    IF ops = << >> THEN Outcome(g, None, queries)
    ELSE LET r == ApplyOp(g, failAt # queries + 1, Head(ops)) IN
         IF r.exc # None THEN Outcome(r.g, r.exc, queries + r.queries)
         ELSE ApplyOps(r.g, Tail(ops), failAt, queries + r.queries)

\* store_article_with_entities(article_data) on database g.
store_article_with_entities(g, article_data, failAt) ==
    ApplyOps(g, ArticleOps(article_data), failAt, 0)

(***************************************************************************)
(* backend/storage/qdrant_store.py                                         *)
(***************************************************************************)

\* init_collection(): get_collection raises when the store does not answer
\* (upGet) or the collection is missing; any exception leads to
\* create_collection, which raises when the store does not answer
\* (upCreate) or the collection exists already.
init_collection(coll, upGet, upCreate) ==
    IF upGet /\ coll THEN [collection |-> coll, exc |-> None]
    ELSE IF upCreate /\ ~coll THEN [collection |-> TRUE, exc |-> None]
    ELSE [collection |-> coll, exc |-> "UnexpectedResponse"]

\* PointStruct(id, vector, payload) of chunk with metadata.
PointStruct(id, chunk, metadata) ==
    [id |-> id, vector |-> chunk.embedding,
     payload |-> Overlay([text |-> chunk.text, index |-> chunk.index], metadata)]

\* An upsert that makes the batch the whole content of the collection.
UpsertReplacing(pts, new) == new

\* qdrant_client.upsert: a point whose id is stored already replaces the
\* stored one, any other point is added.
RECURSIVE Upsert(_, _)
Upsert(pts, new) ==
    IF new = << >> THEN pts
    ELSE LET p == Head(new)
             at == {i \in 1..Len(pts) : pts[i].id = p.id}
         IN Upsert(IF at = {} THEN Append(pts, p)
                   ELSE [i \in 1..Len(pts) |-> IF i \in at THEN p ELSE pts[i]],
                   Tail(new))

\* An id that is the position of the chunk in its batch.
PositionId(pts, i) == i

\* str(uuid.uuid4()) for the i-th chunk of a call: an identifier no stored
\* point has (points are never deleted, so the ids in use are 1..Len(pts)).
FreshId(pts, i) == Len(pts) + i

\* store_chunks(chunks, metadata) on the stored points pts.
store_chunks(pts, coll, up, chunks, metadata) ==
    IF chunks = << >> THEN [points |-> pts, count |-> 0, exc |-> None, upserts |-> 0]
    ELSE LET new == [i \in 1..Len(chunks) |-> PointStruct(FreshId(pts, i), chunks[i], metadata)]
         IN IF ~up \/ ~coll
              THEN [points |-> pts, count |-> 0, exc |-> "UnexpectedResponse", upserts |-> 1]
              ELSE [points |-> Upsert(pts, new), count |-> Len(new), exc |-> None, upserts |-> 1]

(***************************************************************************)
(* backend/ingestion/embedder.py, backend/ingestion/chunker.py             *)
(***************************************************************************)

\* embedder.encode of one prefixed text: the model is a black box, its
\* vector is named by the text it encodes.
Encode(prefix, text) == [prefix |-> prefix, of |-> text]

\* embed_documents(texts): a single vector for a single text, else the list.
embed_documents(texts) ==
    IF Len(texts) = 1 THEN Encode("search_document: ", texts[1])
    ELSE [i \in 1..Len(texts) |-> Encode("search_document: ", texts[i])]

\* embed_query(query)
embed_query(query) == Encode("search_query: ", query)

\* semantic_chunker.chunk(text): the chunk texts of the documents of the model.
SemanticChunks ==
    ("Transformers use self-attention." :> <<"Transformers use self-attention.">>)
    @@ ("Alpha. Beta." :> <<"Alpha.", "Beta.">>)
    @@ ("   " :> << >>)

\* chunk_text(text): the chunks with their 0-based index.
chunk_text(text) ==
    IF IsBlank(text) THEN << >>
    ELSE [i \in 1..Len(SemanticChunks[text]) |->
            [text |-> SemanticChunks[text][i], index |-> i - 1]]

\* chunk_and_embed without lines 80-81: the single vector that
\* embed_documents returns for one text is zipped with the one chunk, which
\* gets its first component.
chunk_and_embed_unwrapped(text, embedUp) ==
    LET chunks == chunk_text(text) IN
    IF chunks = << >> THEN [chunks |-> << >>, exc |-> None, embedCalls |-> 0]
    ELSE IF ~embedUp THEN [chunks |-> << >>, exc |-> "RuntimeError", embedCalls |-> 1]
    ELSE LET texts == [i \in 1..Len(chunks) |-> chunks[i].text]
             e == embed_documents(texts)
         IN [chunks |-> [i \in 1..Len(chunks) |->
                            [text |-> chunks[i].text, index |-> chunks[i].index,
                             embedding |-> IF Len(chunks) = 1
                                             THEN [component |-> 1, vector |-> e]
                                             ELSE e[i]]],
             exc |-> None, embedCalls |-> 1]

\* chunk_and_embed(text); embedUp says whether the embedding model runs.
chunk_and_embed(text, embedUp) ==
    LET chunks == chunk_text(text) IN
    IF chunks = << >> THEN [chunks |-> << >>, exc |-> None, embedCalls |-> 0]
    ELSE IF ~embedUp THEN [chunks |-> << >>, exc |-> "RuntimeError", embedCalls |-> 1]
    ELSE LET texts == [i \in 1..Len(chunks) |-> chunks[i].text]
             e == embed_documents(texts)
             embeddings == IF Len(chunks) = 1 THEN <<e>> ELSE e
         IN [chunks |-> [i \in 1..Len(chunks) |->
                            [text |-> chunks[i].text, index |-> chunks[i].index,
                             embedding |-> embeddings[i]]],
             exc |-> None, embedCalls |-> 1]

(***************************************************************************)
(* backend/ingestion/entity_extractor.py                                   *)
(***************************************************************************)

BundleKeys == {"authors", "topics", "technologies", "companies", "concepts"}

\* {"authors": [], "topics": [], "technologies": [], "companies": [], "concepts": []}
EmptyBundle == [k \in BundleKeys |-> List(<< >>)]

\* A JSON document: an object whose members are arrays of strings or null,
\* or an array.
JsonObject(d) == [t |-> "object", v |-> d]
JsonArray(s) == [t |-> "array", v |-> s]

\* A response of the model: the call fails, or it answers a text.  A text
\* is its opening code fence (lead), its body and its closing fence
\* (trail); a body is a JSON document or not JSON at all.
CallFails == [kind |-> "fails"]
Text(lead, body, trail) == [kind |-> "text", lead |-> lead, body |-> body, trail |-> trail]
NotJson == [json |-> FALSE]
Json(value) == [json |-> TRUE, value |-> value]

\* Lines 61-63: when the text starts with a code fence (three backticks),
\* every fence followed by "json" and the closing fence are removed.  A
\* bare opening fence is not matched by the first pattern and stays.
\* lead is "" (no fence), "fence json" or "fence"; trail is "" or "fence".
StripFences(text) ==
    IF text.lead = "" THEN text
    ELSE [text EXCEPT !.lead = IF @ = "fence json" THEN "" ELSE @, !.trail = ""]

\* json.loads: [exc, value]
json_loads(text) ==
    IF text.lead # "" \/ text.trail # "" \/ ~text.body.json
      THEN [exc |-> "JSONDecodeError", value |-> JsonArray(<< >>)]
      ELSE [exc |-> None, value |-> text.body.value]

\* The logging line 66: entities.get needs a dict, len needs a list.
LogLineRaises(value) ==
    \/ value.t # "object"
    \/ \E k \in {"topics", "technologies"} : Get(value.v, k, List(<< >>)) = Null

\* extract_entities(text, title) when the model answers response:
\* [value, exc, modelCalls].
extract_entities(text, title, response) ==
    IF text = None \/ IsBlank(text) THEN [value |-> EmptyBundle, exc |-> None, modelCalls |-> 0]
    ELSE IF response.kind = "fails" THEN [value |-> EmptyBundle, exc |-> None, modelCalls |-> 1]
    ELSE LET parsed == json_loads(StripFences(response)) IN
         IF parsed.exc # None THEN [value |-> EmptyBundle, exc |-> None, modelCalls |-> 1]
         ELSE IF LogLineRaises(parsed.value)
           THEN [value |-> EmptyBundle, exc |-> None, modelCalls |-> 1]
           ELSE [value |-> parsed.value.v, exc |-> None, modelCalls |-> 1]

\* Whether a value is an EntityBundle: the five keys, each a list.
IsEntityBundle(v) ==
    DOMAIN v = BundleKeys /\ \A k \in BundleKeys : v[k] # Null

(***************************************************************************)
(* backend/tools/scrapper_tool.py                                          *)
(***************************************************************************)

\* urlparse(url).netloc
Netloc == ("https://example.com/a" :> "example.com") @@ ("https://example.org/b" :> "example.org")

\* datetime.utcnow().isoformat(): one instant stands for all.
UtcNow == "2024-01-01T00:00:00"

\* What the web serves: nothing, or a page whose extracted text is text
\* ("" when none is extractable) and whose metadata title is title (None
\* when there is no metadata).
NoDownload == [downloaded |-> FALSE]
Page(title, text) == [downloaded |-> TRUE, title |-> title, text |-> text]

\* scrape_url(url) when the web serves fetched.
scrape_url(url, fetched) ==
    IF ~fetched.downloaded
      THEN [status |-> "error", error |-> "Failed to download content"]
    ELSE IF fetched.text = ""
      THEN [status |-> "error", error |-> "No extractable text found"]
    ELSE [status |-> "success", error |-> None,
          result |-> [url |-> url, title |-> fetched.title, text |-> fetched.text,
                      domain |-> Netloc[url], scraped_at |-> UtcNow]]

(***************************************************************************)
(* backend/ingestion/pipeline.py: ingest_url, one action per call of a     *)
(* collaborator.  run[r].pc is the call invocation r makes next, .log the  *)
(* calls it has made, .ret what it returned (pc "returned") or .exc the    *)
(* exception that left it (pc "raised").                                    *)
(***************************************************************************)

Idle == [pc |-> "idle", log |-> << >>]

\* Lines 26-30 and 39-43: the error payloads.
ScrapeError(err) == [status |-> "error", error |-> <<"Scraping failed: ", err>>, result |-> None]
NoChunksError == [status |-> "error", error |-> <<"No chunks created from the document">>, result |-> None]

\* Lines 78-84: the success payload.
Success(url, title, count, entities) ==
    [status |-> "success", url |-> url, title |-> title, chunk_count |-> count,
     entities |-> entities]

\* Lines 46-51.
Metadata(result) ==
    [source_url |-> result.url, title |-> result.title, domain |-> result.domain,
     scraped_at |-> result.scraped_at]

\* Lines 61-70 without line 69: the concepts are left out of article_data.
ArticleDataNoConcepts(result, entities) ==
    [title |-> result.title, source_url |-> result.url, domain |-> result.domain,
     authors |-> Get(entities, "authors", List(<< >>)),
     topics |-> Get(entities, "topics", List(<< >>)),
     technologies |-> Get(entities, "technologies", List(<< >>)),
     companies |-> Get(entities, "companies", List(<< >>))]

\* Lines 61-70.
ArticleData(result, entities) ==
    [title |-> result.title, source_url |-> result.url, domain |-> result.domain,
     authors |-> Get(entities, "authors", List(<< >>)),
     topics |-> Get(entities, "topics", List(<< >>)),
     technologies |-> Get(entities, "technologies", List(<< >>)),
     companies |-> Get(entities, "companies", List(<< >>)),
     concepts |-> Get(entities, "concepts", List(<< >>))]

Returned(log, ret) == [pc |-> "returned", log |-> log, ret |-> ret]
Raised(log, exc) == [pc |-> "raised", log |-> log, exc |-> exc]

\* An entry of the log: the collaborator called and how the call ended
\* (for extract_entities: the response of the model).
Entry(call, out) == [call |-> call, out |-> out]

\* Lines 21-32 with the error payload replaced by an exception.
OnScrapedRaising(url, scraped) ==
    LET log == <<Entry("scrape_url", scraped.status)>> IN
    IF scraped.status # "success"
      THEN Raised(log, "RuntimeError")
      ELSE [pc |-> "chunk_and_embed", log |-> log, url |-> url, result |-> scraped.result]

\* Lines 21-32: the frame after scrape_url answered scraped.
OnScraped(url, scraped) ==
    LET log == <<Entry("scrape_url", scraped.status)>> IN
    IF scraped.status # "success"
      THEN Returned(log, ScrapeError(scraped.error))
      ELSE [pc |-> "chunk_and_embed", log |-> log, url |-> url, result |-> scraped.result]

\* Lines 35-51 without the check of lines 38-43: ingest_url goes on to the
\* vector store with no chunk.
OnChunkedUnchecked(f, c) ==
    LET log == Append(f.log, Entry("chunk_and_embed",
                   IF c.exc # None THEN c.exc
                   ELSE IF c.chunks = << >> THEN "no chunks" ELSE "chunks"))
    IN IF c.exc # None THEN Raised(log, c.exc)
       ELSE [pc |-> "init_collection", log |-> log, url |-> f.url, result |-> f.result,
             chunks |-> c.chunks, metadata |-> Metadata(f.result)]

\* Lines 35-51: the frame after chunk_and_embed ended as c.
OnChunked(f, c) ==
    LET log == Append(f.log, Entry("chunk_and_embed",
                   IF c.exc # None THEN c.exc
                   ELSE IF c.chunks = << >> THEN "no chunks" ELSE "chunks"))
    IN IF c.exc # None THEN Raised(log, c.exc)
       ELSE IF c.chunks = << >> THEN Returned(log, NoChunksError)
       ELSE [pc |-> "init_collection", log |-> log, url |-> f.url, result |-> f.result,
             chunks |-> c.chunks, metadata |-> Metadata(f.result)]

\* Line 53: the frame after init_collection ended as ic.
OnCollection(f, ic) ==
    LET log == Append(f.log, Entry("init_collection", ic.exc)) IN
    IF ic.exc # None THEN Raised(log, ic.exc)
    ELSE [f EXCEPT !.pc = "store_chunks", !.log = log]

\* Lines 54-55 with an exception of store_chunks swallowed: ingest_url
\* goes on to the extractor.
OnStoredIgnoringFailure(f, sc) ==
    LET log == Append(f.log, Entry("store_chunks", sc.exc)) IN
    [pc |-> "extract_entities", log |-> log, url |-> f.url, result |-> f.result,
     count |-> sc.count]

\* Lines 54-55: the frame after store_chunks ended as sc.
OnStored(f, sc) ==
    LET log == Append(f.log, Entry("store_chunks", sc.exc)) IN
    IF sc.exc # None THEN Raised(log, sc.exc)
    ELSE [pc |-> "extract_entities", log |-> log, url |-> f.url, result |-> f.result,
          count |-> sc.count]

\* Lines 58-70: the frame after extract_entities, the model answering
\* response, ended as ex.
OnExtracted(f, response, ex) ==
    LET log == Append(f.log, Entry("extract_entities", response)) IN
    IF ex.exc # None THEN Raised(log, ex.exc)
    ELSE [pc |-> "store_article_with_entities", log |-> log, url |-> f.url,
          result |-> f.result, count |-> f.count, entities |-> ex.value,
          ops |-> ArticleOps(ArticleData(f.result, ex.value))]

\* Lines 72-84 with the try/except dropped: an exception of
\* store_article_with_entities leaves ingest_url.
OnGraphOpUncaught(f, o) ==
    LET log == Append(f.log, Entry("store_article_with_entities", o.exc)) IN
    IF o.exc # None THEN Raised(log, o.exc)
    ELSE IF Len(f.ops) = 1
      THEN Returned(log, Success(f.url, f.result.title, f.count, f.entities))
      ELSE [f EXCEPT !.ops = Tail(@)]

\* Lines 72-84: the frame after one step of store_article_with_entities
\* ended as o.  An exception is caught and logged; the payload is returned
\* when the call is over, and the call is logged then.
OnGraphOp(f, o) ==
    IF o.exc # None \/ Len(f.ops) = 1
      THEN Returned(Append(f.log, Entry("store_article_with_entities", o.exc)),
                    Success(f.url, f.result.title, f.count, f.entities))
      ELSE [f EXCEPT !.ops = Tail(@)]

(***************************************************************************)
(* backend/storage/qdrant_store.py: search_similar;                        *)
(* backend/tools/retrieval_tool.py: hybrid_search.                         *)
(***************************************************************************)

ExcerptLength == 400
ConceptLimit == 15
EntitiesShown == 5
MinTermLength == 3

\* The similarity scores of the model, in thousandths (the report prints
\* three decimals).
Scores == {250, 900}

\* The sequences of n distinct members of S.
Arrangements(S, n) ==
    {q \in [1..n -> S] : \A i \in 1..n, j \in 1..n : q[i] = q[j] => i = j}

Min(a, b) == IF a <= b THEN a ELSE b

\* The dict search_similar builds of a hit.
Hit(point, score) ==
    [text |-> point.payload.text, index |-> point.payload.index, score |-> score,
     source_url |-> point.payload.source_url, title |-> point.payload.title,
     domain |-> point.payload.domain, scraped_at |-> point.payload.scraped_at]

\* What search_similar(query_embedding, limit) may answer on the points
\* pts: an exception when the store does not answer or has no collection,
\* else the limit nearest points (all of them when there are fewer) in the
\* order of their scores.  The scores are the embedding model's: any.
SimilarAnswers(pts, coll, up, limit) ==
    IF ~up \/ ~coll THEN {[exc |-> "UnexpectedResponse", hits |-> << >>]}
    ELSE LET n == Min(limit, Len(pts)) IN
         {[exc |-> None, hits |-> [i \in 1..n |-> Hit(pts[order[i]], score[i])]] :
            order \in Arrangements(1..Len(pts), n),
            score \in {sc \in [1..n -> Scores] : \A i \in 1..n, j \in 1..n : i < j => sc[i] >= sc[j]}}

\* Line 57 with ">= 3" for "> 3".
LongEnoughFromThree(term) == Len(term) >= MinTermLength

\* Line 57: the terms of the query, as character sequences.
LongEnough(term) == Len(term) > MinTermLength
query_terms(query) == SelectSeq(Split(Chars[query]), LongEnough)

\* any(term IN $terms WHERE toLower(name) CONTAINS toLower(term))
AnyTermIn(terms, name) ==
    \E i \in 1..Len(terms) : Contains(ToLower(Chars[name]), ToLower(terms[i]))

NodeOf(g, id) == CHOOSE n \in g.nodes : NodeId(n) = id

\* The map {type: labels(e)[0], name: e.name, rel: type(r)}.
EntityMap(e, r) == [type |-> e.label, name |-> e.props.name, rel |-> r.rel]

\* articles_query with the first disjunct of its WHERE dropped: only the
\* name of the article is searched.
ArticleRowsByTitle(g, terms) ==
    {r \in g.edges : r.src[1] = "Article" /\ AnyTermIn(terms, r.src[2])}

\* The rows (a, r, e) of articles_query that pass its WHERE: the edges from
\* an Article node a to a node e such that a term is in e's name or in a's.
ArticleRows(g, terms) ==
    {r \in g.edges :
        /\ r.src[1] = "Article"
        /\ \/ AnyTermIn(terms, r.dst[2])
           \/ AnyTermIn(terms, r.src[2])}

\* The records of articles_query before its LIMIT: one per Article node
\* with a row, carrying the distinct entity maps of its rows, in any order.
ArticleRecords(g, terms) ==
    UNION {LET a == NodeOf(g, id)
               maps == {EntityMap(NodeOf(g, r.dst), r) : r \in {x \in ArticleRows(g, terms) : x.src = id}}
           IN {[title |-> a.props.name, url |-> Get(a.props, "url", None), entities |-> es] :
                  es \in Arrangements(maps, Cardinality(maps))}
           : id \in {r.src : r \in ArticleRows(g, terms)}}

\* What articles_query may answer: limit of its records (all when there
\* are fewer), one per title and url, in any order.
ArticleAnswers(g, terms, limit) ==
    LET keys == {<<rec.title, rec.url>> : rec \in ArticleRecords(g, terms)}
        n == Min(limit, Cardinality(keys))
    IN {q \in Arrangements(ArticleRecords(g, terms), n) :
          \A i \in 1..n, j \in 1..n :
             (q[i].title = q[j].title /\ q[i].url = q[j].url) => i = j}

\* The records of concepts_query before its LIMIT: for every edge and each
\* of its two ends e whose name holds a term, e, the relation and the other
\* end, whatever the direction of the edge.
ConceptRecords(g, terms) ==
    {[entity_type |-> x[1][1], entity_name |-> x[1][2], relationship |-> x[2],
      related_type |-> x[3][1], related_name |-> x[3][2]] :
        x \in {y \in {<<r.src, r.rel, r.dst>> : r \in g.edges}
                       \cup {<<r.dst, r.rel, r.src>> : r \in g.edges} :
                  AnyTermIn(terms, y[1][2])}}

\* What concepts_query may answer: 15 of its records (all when there are
\* fewer), in any order.
ConceptAnswers(g, terms) ==
    Arrangements(ConceptRecords(g, terms),
                 Min(ConceptLimit, Cardinality(ConceptRecords(g, terms))))

\* The lines of the report.  A line is its kind and what it prints.
Line(kind) == [kind |-> kind]
Header == Line("HYBRID SEARCH RESULTS")
VectorTitle == Line("VECTOR DATABASE RESULTS (Semantic Search)")
GraphTitle == Line("KNOWLEDGE GRAPH RESULTS (Entity Relationships)")
Rule == Line("-" )
SummaryRule == Line("=")
NoVectorResults == Line("No semantically similar documents found.")
NoArticles == Line("No related articles found in knowledge graph.")
ArticlesTitle == Line("**Related Articles from Knowledge Graph:**")
RelationshipsTitle == Line("**Entity Relationships:**")
VectorError(e) == [kind |-> "Vector search encountered an error: ", e |-> e]
GraphError(e) == [kind |-> "Knowledge graph search encountered an error: ", e |-> e]
Summary(has_results) ==
    IF has_results
      THEN Line("Hybrid search completed successfully. Results from both vector DB and knowledge graph are shown above.")
      ELSE Line("No results found in either vector database or knowledge graph.")

\* r['text'][:400]
Excerpt(text) == SubSeq(Chars[text], 1, Min(ExcerptLength, Len(Chars[text])))

\* Lines 41-44: the three lines of each hit, numbered from 1.
RECURSIVE HitLines(_, _)
HitLines(hits, i) ==
    IF i > Len(hits) THEN << >>
    ELSE <<[kind |-> "Source: ", i |-> i, title |-> hits[i].title],
           [kind |-> "Similarity Score: ", score |-> hits[i].score],
           [kind |-> "Content: ", content |-> Excerpt(hits[i].text)]>>
         \o HitLines(hits, i + 1)

\* Lines 75-81: the lines of each record of articles_query.
RECURSIVE RecordLines(_)
RecordLines(records) ==
    IF records = << >> THEN << >>
    ELSE LET rec == Head(records)
             shown == SubSeq(rec.entities, 1, Min(EntitiesShown, Len(rec.entities)))
         IN <<[kind |-> "article", title |-> rec.title]>>
            \o (IF rec.url \notin {None, ""} THEN <<[kind |-> "URL: ", url |-> rec.url]>> ELSE << >>)
            \o (IF rec.entities # << >>
                  THEN <<[kind |-> "Connected Entities: ",
                          entities |-> [i \in 1..Len(shown) |->
                                           [name |-> shown[i].name, type |-> shown[i].type]]]>>
                  ELSE << >>)
            \o RecordLines(Tail(records))

\* Lines 100-104: the line of each record of concepts_query.
RelationshipLines(records) ==
    [i \in 1..Len(records) |->
        [kind |-> "relationship",
         left |-> <<records[i].entity_type, records[i].entity_name>>,
         relationship |-> records[i].relationship,
         right |-> <<records[i].related_type, records[i].related_name>>]]

\* The vector pass, lines 32-49.  v is what embed_query and search_similar
\* did: [exc, hits].
VectorSection(v) ==
    <<VectorTitle, Rule>>
    \o (IF v.exc # None THEN <<VectorError(v.exc)>>
        ELSE IF v.hits # << >> THEN HitLines(v.hits, 1)
        ELSE <<NoVectorResults>>)

\* The graph pass, lines 52-107.  k is what the two queries did:
\* [articlesExc, records, conceptsExc, concept_records].
GraphSection(k) ==
    <<GraphTitle, Rule>>
    \o (IF k.articlesExc # None THEN <<GraphError(k.articlesExc)>>
        ELSE (IF k.records # << >> THEN <<ArticlesTitle>> \o RecordLines(k.records)
              ELSE <<NoArticles>>)
             \o (IF k.conceptsExc # None THEN <<GraphError(k.conceptsExc)>>
                 ELSE IF k.concept_records # << >>
                   THEN <<RelationshipsTitle>> \o RelationshipLines(k.concept_records)
                   ELSE << >>))

\* has_results set by the vector pass only (lines 74 and 99 dropped).
HasResultsVectorOnly(v, k) == v.exc = None /\ v.hits # << >>

\* has_results at line 111.
HasResults(v, k) ==
    \/ v.exc = None /\ v.hits # << >>
    \/ k.articlesExc = None /\ k.records # << >>
    \/ k.articlesExc = None /\ k.conceptsExc = None /\ k.concept_records # << >>

\* hybrid_search without the try/except of the vector pass: its exception
\* leaves the function.
hybrid_search_unguarded(v, k) ==
    IF v.exc # None THEN [exc |-> v.exc, output |-> << >>]
    ELSE [exc |-> None,
          output |-> <<Header>> \o VectorSection(v) \o GraphSection(k)
                     \o <<SummaryRule, Summary(HasResults(v, k))>>]

\* hybrid_search(query, limit) when the vector pass did v and the graph
\* pass did k: the exception that leaves it (None) and the report.
hybrid_search(v, k) ==
    [exc |-> None,
     output |-> <<Header>> \o VectorSection(v) \o GraphSection(k)
                \o <<SummaryRule, Summary(HasResults(v, k))>>]

\* What the vector pass may do for query and limit on the stored points:
\* embed_query raises, or search_similar answers.
VectorPasses(pts, coll, embedUp, up, limit) ==
    IF ~embedUp THEN {[exc |-> "RuntimeError", hits |-> << >>]}
    ELSE SimilarAnswers(pts, coll, up, limit)

\* What the graph pass may do for query and limit on database g: the first
\* query raises (up1 false), or it answers and the second raises (up2
\* false), or both answer.
GraphPasses(g, up1, up2, query, limit) ==
    LET terms == query_terms(query) IN
    IF ~up1
      THEN {[articlesExc |-> "ServiceUnavailable", records |-> << >>,
             conceptsExc |-> None, concept_records |-> << >>]}
    ELSE IF ~up2
      THEN {[articlesExc |-> None, records |-> a,
             conceptsExc |-> "ServiceUnavailable", concept_records |-> << >>] :
               a \in ArticleAnswers(g, terms, limit)}
    ELSE {[articlesExc |-> None, records |-> a, conceptsExc |-> None, concept_records |-> c] :
            a \in ArticleAnswers(g, terms, limit), c \in ConceptAnswers(g, terms)}

(***************************************************************************)
(* The inputs of the model.                                                *)
(***************************************************************************)

\* The most points the collection holds when an ingestion starts.
MaxPoints == 2

Runs == {"r1", "r2"}

\* The clients of the HTTP API: each has one request in flight at most.
Clients == {"c1", "c2"}

URLS == DOMAIN Netloc

Fetched ==
    {NoDownload,
     Page("T", ""),
     Page("T", "   "),
     Page("T", "Transformers use self-attention."),
     Page(None, "Transformers use self-attention."),
     Page("U", "Alpha. Beta.")}

TransformerBundle ==
    [EmptyBundle EXCEPT !.technologies = List(<<"Transformer">>),
                        !.concepts = List(<<"self-attention">>)]

Responses ==
    {CallFails,
     Text("", NotJson, ""),
     Text("", Json(JsonArray(<< >>)), ""),
     Text("", Json(JsonObject(EmptyBundle)), ""),
     Text("", Json(JsonObject(TransformerBundle)), ""),
     Text("fence json", Json(JsonObject(TransformerBundle)), "fence"),
     Text("fence", Json(JsonObject(TransformerBundle)), "fence"),
     Text("", Json(JsonObject([topics |-> List(<<"X">>)])), ""),
     Text("", Json(JsonObject([TransformerBundle EXCEPT !.authors = Null])), ""),
     Text("", Json(JsonObject([TransformerBundle EXCEPT !.topics = Null])), ""),
     Text("", Json(JsonObject([TransformerBundle EXCEPT !.concepts = Null])), "")}

NoCall == [call |-> "none"]

(***************************************************************************)
(* ingest_url: the actions of invocation r.                                *)
(***************************************************************************)

Others == <<last, report, ApiVars>>

\* Lines 21-32.  A new invocation starts when r is not running.
ScrapeUrl(r) ==
    /\ run[r].pc \in {"idle", "returned", "raised"}
    /\ Len(points) <= MaxPoints
    /\ \E url \in URLS, fetched \in Fetched :
         run' = [run EXCEPT ![r] = OnScraped(url, scrape_url(url, fetched))]
    /\ UNCHANGED <<graph, points, collection, Others>>

\* Lines 35-51.
ChunkAndEmbed(r) ==
    /\ run[r].pc = "chunk_and_embed"
    /\ \E embedUp \in BOOLEAN :
         run' = [run EXCEPT ![r] = OnChunked(@, chunk_and_embed(@.result.text, embedUp))]
    /\ UNCHANGED <<graph, points, collection, Others>>

\* Line 53.
InitCollection(r) ==
    /\ run[r].pc = "init_collection"
    /\ \E upGet \in BOOLEAN, upCreate \in BOOLEAN :
         LET ic == init_collection(collection, upGet, upCreate) IN
         /\ collection' = ic.collection
         /\ run' = [run EXCEPT ![r] = OnCollection(@, ic)]
    /\ UNCHANGED <<graph, points, Others>>

\* Lines 54-55.
StoreChunks(r) ==
    /\ run[r].pc = "store_chunks"
    /\ \E up \in BOOLEAN :
         LET sc == store_chunks(points, collection, up, run[r].chunks, run[r].metadata) IN
         /\ points' = sc.points
         /\ run' = [run EXCEPT ![r] = OnStored(@, sc)]
    /\ UNCHANGED <<graph, collection, Others>>

\* Lines 58-70.
ExtractEntities(r) ==
    /\ run[r].pc = "extract_entities"
    /\ \E response \in Responses :
         run' = [run EXCEPT ![r] =
                   OnExtracted(@, response,
                               extract_entities(@.result.text, @.result.title, response))]
    /\ UNCHANGED <<graph, points, collection, Others>>

\* Lines 72-84: one step of store_article_with_entities, and the return
\* when it was the last or it raised.
StoreGraphStep(r) ==
    /\ run[r].pc = "store_article_with_entities"
    /\ \E up \in BOOLEAN :
         LET o == ApplyOp(graph, up, Head(run[r].ops)) IN
         /\ graph' = o.g
         /\ run' = [run EXCEPT ![r] = OnGraphOp(@, o)]
    /\ UNCHANGED <<points, collection, Others>>

IngestNext(R) ==
    \E r \in R :
        \/ ScrapeUrl(r)
        \/ ChunkAndEmbed(r)
        \/ InitCollection(r)
        \/ StoreChunks(r)
        \/ ExtractEntities(r)
        \/ StoreGraphStep(r)

Init ==
    /\ graph = EmptyGraph
    /\ points = << >>
    /\ collection \in BOOLEAN
    /\ run = [r \in Runs |-> Idle]
    /\ last = NoCall
    /\ report = NoCall
    /\ session_service = EmptyDict
    /\ active_runners = EmptyDict
    /\ runners_made = 0
    /\ episodes = << >>
    /\ req = [c \in Clients |-> Idle]

\* Ingestions of one caller, one after the other.
Next == IngestNext({"r1"})

Spec == Init /\ [][Next]_vars

(***************************************************************************)
(* Direct calls of the graph-store functions.                              *)
(***************************************************************************)

\* The most nodes and edges the database holds when a direct call is made,
\* and the latest query at which the store may fail in one call.
MaxNodes == 3
MaxEdges == 2
MaxFailAt == 5

ApiTypes == {"Topic", "Person"}
ApiNames == {"X", "Y"}
ApiProps == {EmptyDict, [url |-> "https://example.com/a"]}

FromTypes == {"Article", "Topic"}
FromNames == {"T", "X"}
ApiRelations == {"RELATED_TO"}

Articles ==
    {[title |-> "T", source_url |-> "https://example.com/a", domain |-> "example.com",
      technologies |-> List(<<"Transformer">>), concepts |-> List(<<"self-attention">>)],
     [title |-> "T", source_url |-> "https://example.org/b", domain |-> "example.org",
      topics |-> List(<<"X", "X">>)],
     [title |-> None, source_url |-> "https://example.com/a", topics |-> List(<<"X">>)],
     [title |-> "T", source_url |-> "https://example.com/a", domain |-> "example.com",
      topics |-> List(<<"X">>), technologies |-> Null,
      concepts |-> List(<<"self-attention">>)]}

Small == Cardinality(graph.nodes) <= MaxNodes /\ Cardinality(graph.edges) <= MaxEdges

Result(call, o) == [call |-> call, exc |-> o.exc, queries |-> o.queries]

CreateEntityCall(entity_type, name, properties, up) ==
    LET o == create_entity(graph, up, entity_type, name, properties) IN
    /\ Small
    /\ graph' = o.g
    /\ last' = Result("create_entity", o)
    /\ report' = NoCall
    /\ UNCHANGED <<points, collection, run, ApiVars>>

CreateRelationshipCall(from_type, from_name, relationship, to_type, to_name, up) ==
    LET o == create_relationship(graph, up, from_type, from_name, relationship,
                                 to_type, to_name) IN
    /\ Small
    /\ graph' = o.g
    /\ last' = Result("create_relationship", o)
    /\ report' = NoCall
    /\ UNCHANGED <<points, collection, run, ApiVars>>

StoreArticleCall(article_data, failAt) ==
    LET o == store_article_with_entities(graph, article_data, failAt) IN
    /\ Small
    /\ graph' = o.g
    /\ last' = Result("store_article_with_entities", o)
    /\ report' = NoCall
    /\ UNCHANGED <<points, collection, run, ApiVars>>

CreateEntity ==
    \E t \in ApiTypes, n \in ApiNames, p \in ApiProps, up \in BOOLEAN :
        CreateEntityCall(t, n, p, up)

CreateRelationship ==
    \E ft \in FromTypes, fn \in FromNames, rel \in ApiRelations,
       tt \in ApiTypes, tn \in ApiNames, up \in BOOLEAN :
        CreateRelationshipCall(ft, fn, rel, tt, tn, up)

StoreArticle ==
    \E a \in Articles, failAt \in 0..MaxFailAt : StoreArticleCall(a, failAt)

GraphNext == CreateEntity \/ CreateRelationship \/ StoreArticle

SpecGraph == Init /\ [][GraphNext]_vars

(***************************************************************************)
(* hybrid_search over stores filled by direct calls of the store           *)
(* functions.                                                              *)
(***************************************************************************)

Queries == {"self-attention", "SELF-ATTENTION", "the Transformer", "T X", "   "}
Limits == {1, 3}

Documents ==
    {[text |-> "Transformers use self-attention.",
      metadata |-> [source_url |-> "https://example.com/a", title |-> "T",
                    domain |-> "example.com", scraped_at |-> UtcNow]],
     [text |-> "Alpha. Beta.",
      metadata |-> [source_url |-> "https://example.org/b", title |-> "U",
                    domain |-> "example.org", scraped_at |-> UtcNow]]}

SearchArticles == {a \in Articles : a.title = "T" /\ "technologies" \in DOMAIN a}

\* init_collection() and store_chunks(chunk_and_embed(text), metadata).
StoreDocumentCall(doc, up) ==
    LET ic == init_collection(collection, up, up)
        sc == store_chunks(points, ic.collection, up,
                           chunk_and_embed(doc.text, TRUE).chunks, doc.metadata)
    IN /\ Len(points) < MaxPoints
       /\ collection' = ic.collection
       /\ points' = sc.points
       /\ last' = [call |-> "store_chunks", exc |-> sc.exc, queries |-> sc.upserts]
       /\ report' = NoCall
       /\ UNCHANGED <<graph, run, ApiVars>>

StoreDocument == \E doc \in Documents, up \in BOOLEAN : StoreDocumentCall(doc, up)

StoreSearchArticle ==
    \E a \in SearchArticles, failAt \in {0, 4} : StoreArticleCall(a, failAt)

\* hybrid_search(query, limit): report holds the call, what its two passes
\* did and what it returned, until the next call of a store function.  A
\* search changes no store, so one right after another reaches no state
\* that the first does not reach: it is left out.
HybridSearchCall(query, limit, v, k) ==
    LET r == hybrid_search(v, k) IN
    /\ report' = [call |-> "hybrid_search", query |-> query, limit |-> limit,
                  vector |-> v, graph |-> k, exc |-> r.exc, output |-> r.output]
    /\ UNCHANGED <<graph, points, collection, run, last, ApiVars>>

HybridSearch ==
    /\ report = NoCall
    /\ \E query \in Queries, limit \in Limits,
          embedUp \in BOOLEAN, up \in BOOLEAN, up1 \in BOOLEAN, up2 \in BOOLEAN :
           \E v \in VectorPasses(points, collection, embedUp, up, limit),
              k \in GraphPasses(graph, up1, up2, query, limit) :
               HybridSearchCall(query, limit, v, k)

SearchNext == StoreDocument \/ StoreSearchArticle \/ HybridSearch

SpecSearch == Init /\ [][SearchNext]_vars

\* C4: hybrid_search never raises; its report is the header, the vector
\* section, the knowledge-graph section and the summary, in this order; the
\* error of a failing pass is a line of its own section and of no other;
\* and what a pass found is in its section whatever the other pass did.
C4_SearchIsolatesFailures ==
    report.call = "hybrid_search" =>
      LET out == report.output
          v == report.vector
          k == report.graph
          n == Len(out)
          titles == {i \in 1..n : out[i] = GraphTitle}
          g == CHOOSE i \in titles : TRUE
          VectorPart == 3..(g - 1)
          GraphPart == (g + 1)..(n - 2)
      IN /\ report.exc = None
         /\ n >= 6 /\ out[1] = Header /\ out[2] = VectorTitle
         /\ Cardinality(titles) = 1 /\ g > 2
         /\ out[n - 1] = SummaryRule /\ out[n] \in {Summary(TRUE), Summary(FALSE)}
         /\ \A i \in 1..n :
              /\ out[i].kind = VectorError(None).kind => (i \in VectorPart /\ out[i].e = v.exc)
              /\ out[i].kind = GraphError(None).kind
                   => (i \in GraphPart /\ out[i].e \in {k.articlesExc, k.conceptsExc})
              /\ out[i].kind \in {"Source: ", "Similarity Score: ", "Content: "} => i \in VectorPart
              /\ out[i].kind \in {"article", "relationship"} => i \in GraphPart
         /\ (v.exc # None) = (\E i \in VectorPart : out[i] = VectorError(v.exc))
         /\ (k.articlesExc # None \/ k.conceptsExc # None)
              = (\E i \in GraphPart : out[i].kind = GraphError(None).kind)
         /\ v.exc = None =>
              \A h \in 1..Len(v.hits) : \E i \in VectorPart :
                 /\ out[i] = [kind |-> "Source: ", i |-> h, title |-> v.hits[h].title]
                 /\ out[i + 2] = [kind |-> "Content: ", content |-> Chars[v.hits[h].text]]
         /\ k.articlesExc = None =>
              \A j \in 1..Len(k.records) : \E i \in GraphPart :
                 out[i] = [kind |-> "article", title |-> k.records[j].title]
         /\ (k.articlesExc = None /\ k.conceptsExc = None) =>
              \A j \in 1..Len(k.concept_records) : \E i \in GraphPart :
                 /\ out[i].kind = "relationship"
                 /\ out[i].left = <<k.concept_records[j].entity_type, k.concept_records[j].entity_name>>

\* The vector pass failed and the report holds what the graph pass found.
C4_Witness ==
    /\ report.call = "hybrid_search"
    /\ report.vector.exc = "UnexpectedResponse"
    /\ report.graph.articlesExc = None /\ report.graph.conceptsExc = None
    /\ Len(report.graph.records) = 1
    /\ Len(report.graph.concept_records) >= 1
    /\ \E i \in 1..Len(report.output) :
          report.output[i] = [kind |-> "article", title |-> "T"]

(***************************************************************************)
(* The graph store: natural keys and frame conditions.                     *)
(***************************************************************************)

HasNode(g, label, name) == MatchNodes(g, label, name) # {}

\* C5: the database holds at most one node for each (entity type, name).
C5_OneNodePerTypeAndName ==
    \A n1 \in graph.nodes, n2 \in graph.nodes :
        (n1.label = n2.label /\ n1.props.name = n2.props.name) => n1 = n2

\* Article "T" was merged by two calls (its url is the second call's, the
\* Technology node is the first call's) and Topic "X" was merged twice by
\* the second; there is one node of each.
C5_Witness ==
    /\ last = [call |-> "store_article_with_entities", exc |-> None, queries |-> 5]
    /\ \E n \in MatchNodes(graph, "Article", "T") : n.props.url = "https://example.org/b"
    /\ HasNode(graph, "Technology", "Transformer")
    /\ Cardinality(MatchNodes(graph, "Topic", "X")) = 1
    /\ Cardinality(MatchNodes(graph, "Article", "T")) = 1

\* C6: there is at most one edge of a relation type from one node to
\* another.
C6_OneEdgePerRelationAndPair ==
    \A e1 \in graph.edges, e2 \in graph.edges :
        (e1.rel = e2.rel /\ e1.src = e2.src /\ e1.dst = e2.dst) => e1 = e2

\* The article whose topics are X, X was stored in full (five queries, two
\* of them the same create_relationship), and a direct call merged the
\* RELATED_TO edge from Topic "X" to itself.
C6_Witness ==
    /\ last.call = "create_relationship" /\ last.exc = None
    /\ Cardinality(EdgesBetween(graph, "ABOUT_TOPIC", <<"Article", "T", 1>>, <<"Topic", "X", 1>>)) = 1
    /\ Cardinality(EdgesBetween(graph, "RELATED_TO", <<"Topic", "X", 1>>, <<"Topic", "X", 1>>)) = 1
    /\ Cardinality(graph.edges) = 2

\* C7: a call of create_relationship whose source or target node does not
\* exist leaves the database as it was (no edge, no node), and when the
\* store answers the query the call returns without an exception.
C7_MissingEndpointIsNoOp ==
    [][\A ft \in FromTypes, fn \in FromNames, rel \in ApiRelations,
         tt \in ApiTypes, tn \in ApiNames, up \in BOOLEAN :
         (/\ ~HasNode(graph, ft, fn) \/ ~HasNode(graph, tt, tn)
          /\ CreateRelationshipCall(ft, fn, rel, tt, tn, up))
         => /\ graph' = graph
            /\ up => last'.exc = None]_vars

\* create_relationship returned although the database holds nodes and no
\* edge: an endpoint was missing.
C7_Witness ==
    /\ last = [call |-> "create_relationship", exc |-> None, queries |-> 1]
    /\ HasNode(graph, "Topic", "X")
    /\ ~HasNode(graph, "Topic", "Y")
    /\ ~HasNode(graph, "Article", "T")
    /\ graph.edges = {}

\* C8: create_entity with an entity type outside ENTITY_TYPES raises
\* ValueError before any query, and the database is as it was.
C8_InvalidEntityTypeRejected ==
    [][\A t \in ApiTypes \ ENTITY_TYPES, n \in ApiNames, p \in ApiProps, up \in BOOLEAN :
         CreateEntityCall(t, n, p, up)
         => /\ last'.exc = "ValueError"
            /\ last'.queries = 0
            /\ graph' = graph]_vars

C8_Witness ==
    /\ last = [call |-> "create_entity", exc |-> "ValueError", queries |-> 0]
    /\ graph.nodes # {}

(***************************************************************************)
(* ingest_url: error handling.                                             *)
(***************************************************************************)

\* Invocation r takes the step.
StepOf(r) == run'[r] # run[r]

\* The call-th call of frame f is logged and was a call of name.
Called(f, n, name) == Len(f.log) >= n /\ f.log[n].call = name

\* C1: when scrape_url reports a non-success status, ingest_url returns at
\* once the error payload whose reason starts with "Scraping failed: ",
\* having called nothing but the scraper, and the collection, its points
\* and the graph are as they were.
C1_ScrapeFailureNoSideEffects ==
    [][\A r \in Runs :
         (StepOf(r) /\ Called(run'[r], 1, "scrape_url") /\ run'[r].log[1].out # "success")
         => /\ run'[r].pc = "returned"
            /\ run'[r].ret.status = "error"
            /\ run'[r].ret.error[1] = "Scraping failed: "
            /\ run'[r].ret.result = None
            /\ Len(run'[r].log) = 1
            /\ UNCHANGED <<graph, points, collection>>]_vars

C1_Witness ==
    \E r \in Runs :
        /\ run[r].pc = "returned"
        /\ run[r].log = <<Entry("scrape_url", "error")>>
        /\ run[r].ret = ScrapeError("No extractable text found")
        /\ Len(points) > 0

\* The three outcomes of ingest_url.
IsOutcome(f) ==
    /\ f.pc = "returned"
    /\ \/ f.ret.status = "success"
       \/ f.ret.status = "error" /\ f.ret.error[1] = "Scraping failed: "
       \/ f.ret = NoChunksError

\* C2: every run of ingest_url that is over ended in a success payload,
\* the error payload of a scrape failure or the error payload of a
\* document without chunks; no exception leaves ingest_url.
C2_OnlyThreeOutcomes ==
    \A r \in Runs : run[r].pc \in {"returned", "raised"} => IsOutcome(run[r])

\* C3: once store_chunks has stored the points of a document, ingest_url
\* never raises and never removes a point; a failing model call or an
\* unparseable answer gives the all-empty bundle; and it returns the
\* success payload with the count store_chunks returned, which is the
\* number of points it stored, and the extractor's result.
VectorsStored(f) == f.pc \in {"extract_entities", "store_article_with_entities"}

ExtractionFailed(response) ==
    response.kind = "fails" \/ json_loads(StripFences(response)).exc # None

C3_BestEffortAfterVectors ==
    [][\A r \in Runs :
         /\ (StepOf(r) /\ run[r].pc = "store_chunks" /\ VectorsStored(run'[r]))
            => /\ run'[r].count = Len(run[r].chunks)
               /\ Len(points') = Len(points) + run'[r].count
         /\ (StepOf(r) /\ VectorsStored(run[r]))
            => /\ run'[r].pc \in {"store_article_with_entities", "returned"}
               /\ points' = points
               /\ (run[r].pc = "extract_entities"
                     /\ ExtractionFailed(run'[r].log[Len(run'[r].log)].out))
                   => run'[r].entities = EmptyBundle
               /\ run'[r].pc = "returned"
                   => run'[r].ret = Success(run[r].url, run[r].result.title,
                                           run[r].count, run[r].entities)]_vars

\* A run returned success although the graph store failed, after an
\* extraction that failed too.
C3_Witness ==
    \E r \in Runs :
        /\ run[r].pc = "returned"
        /\ Called(run[r], 6, "store_article_with_entities")
        /\ run[r].log[6].out = "ServiceUnavailable"
        /\ run[r].log[5].out = CallFails
        /\ run[r].ret.status = "success"
        /\ run[r].ret.entities = EmptyBundle
        /\ run[r].ret.chunk_count = 2
        /\ Len(points) = 2

\* C9: no exception leaves extract_entities, and whatever it returns is an
\* EntityBundle: the five keys, each a list.
C9_ExtractReturnsBundle ==
    \A r \in Runs :
        (Called(run[r], 5, "extract_entities") /\ Len(run[r].log) = 5)
        => /\ run[r].pc = "store_article_with_entities"
           /\ IsEntityBundle(run[r].entities)

\* C10: when chunk_and_embed yields no chunk, ingest_url returns at once the
\* error "No chunks created from the document", having called only the
\* scraper and the chunker, and the collection, its points and the graph
\* are as they were.
C10_ZeroChunksNoStorage ==
    [][\A r \in Runs :
         (StepOf(r) /\ Called(run'[r], 2, "chunk_and_embed")
            /\ run'[r].log[2].out = "no chunks")
         => /\ run'[r].pc = "returned"
            /\ run'[r].ret = NoChunksError
            /\ Len(run'[r].log) = 2
            /\ UNCHANGED <<graph, points, collection>>]_vars

C10_Witness ==
    \E r \in Runs :
        /\ run[r].pc = "returned"
        /\ run[r].ret = NoChunksError
        /\ run[r].log = <<Entry("scrape_url", "success"), Entry("chunk_and_embed", "no chunks")>>

(***************************************************************************)
(* Two invocations of ingest_url for the same URL, interleaved call by     *)
(* call.  Every store answers every call: an exception here is one the     *)
(* store raises for the request it was sent.  init_collection is its two   *)
(* calls of the client, get_collection and create_collection.              *)
(***************************************************************************)

SameUrl == "https://example.com/a"
SamePage == Page("T", "Transformers use self-attention.")
SameResponse == Text("", Json(JsonObject(TransformerBundle)), "")

\* Lines 21-32, once per invocation.
ScrapeSameUrl(r) ==
    /\ run[r].pc = "idle"
    /\ run' = [run EXCEPT ![r] = OnScraped(SameUrl, scrape_url(SameUrl, SamePage))]
    /\ UNCHANGED <<graph, points, collection, Others>>

\* Lines 35-51.
ChunkSamePage(r) ==
    /\ run[r].pc = "chunk_and_embed"
    /\ run' = [run EXCEPT ![r] = OnChunked(@, chunk_and_embed(@.result.text, TRUE))]
    /\ UNCHANGED <<graph, points, collection, Others>>

\* qdrant_store.py lines 43-46: get_collection returns, or raises because
\* there is no collection and the except branch is entered.
GetCollection(r) ==
    /\ run[r].pc = "init_collection"
    /\ run' = [run EXCEPT ![r] =
                 IF collection THEN OnCollection(@, init_collection(collection, TRUE, TRUE))
                 ELSE [@ EXCEPT !.pc = "create_collection"]]
    /\ UNCHANGED <<graph, points, collection, Others>>

\* qdrant_store.py lines 47-54: create_collection, which the store refuses
\* when the collection exists by now.
CreateCollection(r) ==
    /\ run[r].pc = "create_collection"
    /\ LET ic == init_collection(collection, FALSE, TRUE) IN
       /\ collection' = ic.collection
       /\ run' = [run EXCEPT ![r] = OnCollection(@, ic)]
    /\ UNCHANGED <<graph, points, Others>>

\* Lines 54-55.
StoreSameChunks(r) ==
    /\ run[r].pc = "store_chunks"
    /\ LET sc == store_chunks(points, collection, TRUE, run[r].chunks, run[r].metadata) IN
       /\ points' = sc.points
       /\ run' = [run EXCEPT ![r] = OnStored(@, sc)]
    /\ UNCHANGED <<graph, collection, Others>>

\* Lines 58-70.
ExtractSameEntities(r) ==
    /\ run[r].pc = "extract_entities"
    /\ run' = [run EXCEPT ![r] =
                 OnExtracted(@, SameResponse,
                             extract_entities(@.result.text, @.result.title, SameResponse))]
    /\ UNCHANGED <<graph, points, collection, Others>>

\* Lines 72-84: one query of store_article_with_entities.
MergeSameGraph(r) ==
    /\ run[r].pc = "store_article_with_entities"
    /\ LET o == ApplyOp(graph, TRUE, Head(run[r].ops)) IN
       /\ graph' = o.g
       /\ run' = [run EXCEPT ![r] = OnGraphOp(@, o)]
    /\ UNCHANGED <<points, collection, Others>>

ConcurrentNext ==
    \E r \in Runs :
        \/ ScrapeSameUrl(r)
        \/ ChunkSamePage(r)
        \/ GetCollection(r)
        \/ CreateCollection(r)
        \/ StoreSameChunks(r)
        \/ ExtractSameEntities(r)
        \/ MergeSameGraph(r)

SpecConcurrent == Init /\ [][ConcurrentNext]_vars

\* What one run of ingest_url for SameUrl leaves in empty stores.
SingleRunChunks == chunk_and_embed(SamePage.text, TRUE).chunks
SingleRunGraph ==
    store_article_with_entities(
        EmptyGraph,
        ArticleData(scrape_url(SameUrl, SamePage).result, TransformerBundle), 0).g

BothOver == \A r \in Runs : run[r].pc \in {"returned", "raised"}

\* C11: when the two runs for the same URL are over, whatever their
\* interleaving, both returned success, the collection holds the chunks of
\* both as points with distinct ids (twice the chunks of one run), and the
\* graph is the graph one run produces.
C11_ConcurrentSameUrl ==
    BothOver =>
        /\ \A r \in Runs : run[r].pc = "returned" /\ run[r].ret.status = "success"
        /\ Len(points) = 2 * Len(SingleRunChunks)
        /\ \A i \in 1..Len(points), j \in 1..Len(points) :
              points[i].id = points[j].id => i = j
        /\ graph = SingleRunGraph

\* The same with the collection in place before the runs start.
C11_WithCollection ==
    (BothOver /\ \A r \in Runs : run[r].log[3].out = None) => C11_ConcurrentSameUrl

(***************************************************************************)
(* The graph store: the allow-list of relations, partial failure.          *)
(***************************************************************************)

\* Whether RELATIONSHIP_TYPES permits an edge of relation rel from a node
\* of type from_type to a node of type to_type.
Permitted(rel, from_type, to_type) ==
    /\ rel \in DOMAIN RELATIONSHIP_TYPES
    /\ from_type = RELATIONSHIP_TYPES[rel][1]
    /\ to_type \in RELATIONSHIP_TYPES[rel][2]

\* C12: every edge of the graph has a relation of RELATIONSHIP_TYPES, from
\* a node of the source type to a node of a target type the list gives
\* for that relation.
C12_EdgesFromAllowList ==
    \A e \in graph.edges : Permitted(e.rel, e.src[1], e.dst[1])

\* The database after the first n of the steps ops, the store answering
\* each of them.
RECURSIVE AfterSteps(_, _, _)
AfterSteps(g, ops, n) ==
    IF n = 0 \/ ops = << >> THEN g
    ELSE AfterSteps(ApplyOp(g, TRUE, Head(ops)).g, Tail(ops), n - 1)

NodeIds(g) == {NodeId(n) : n \in g.nodes}

\* The steps a failed call completed: its queries but the one that raised
\* (a TypeError is raised by the for statement, not by a query).
Completed(result) ==
    IF result.exc = "TypeError" THEN result.queries ELSE result.queries - 1

\* C13: when store_article_with_entities raises, the database is the one
\* its completed steps made of the database it started on, nothing undone;
\* the edges it added start at the Article node of the call, and every
\* edge of the database has its two end nodes in the database.
C13_FailureKeepsPrefix ==
    [][\A a \in Articles, failAt \in 0..MaxFailAt :
         (/\ last'.call = "store_article_with_entities" /\ last'.exc # None
          /\ StoreArticleCall(a, failAt))
         => /\ graph' = AfterSteps(graph, ArticleOps(a), Completed(last'))
            /\ \A e \in graph'.edges \ graph.edges : e.src = <<"Article", a.title, 1>>
            /\ \A e \in graph'.edges :
                  e.src \in NodeIds(graph') /\ e.dst \in NodeIds(graph')]_vars

\* The store failed at the fourth query of a call: the Article and the
\* Technology nodes and their edge are in the database, the Concept is not.
C13_Witness ==
    /\ last = [call |-> "store_article_with_entities", exc |-> "ServiceUnavailable",
               queries |-> 4]
    /\ HasNode(graph, "Article", "T")
    /\ HasNode(graph, "Technology", "Transformer")
    /\ ~HasNode(graph, "Concept", "self-attention")
    /\ Cardinality(graph.edges) = 1

\* Calls of store_article_with_entities only, one after the other.
SpecArticle == Init /\ [][StoreArticle]_vars

(***************************************************************************)
(* The stores over time: ingest_url and direct calls of the store          *)
(* functions: direct calls before and after one call of ingest_url.        *)
(***************************************************************************)

\* The chunks and metadata handed to a direct call of store_chunks.
ChunkLists ==
    {chunk_and_embed(text, TRUE).chunks :
        text \in {"   ", "Transformers use self-attention.", "Alpha. Beta."}}
Metadatas ==
    {doc.metadata : doc \in Documents}
    \cup {[doc.metadata EXCEPT !.title = None] : doc \in Documents}

\* store_chunks(chunks, metadata), called directly.
StoreChunksCall(chunks, metadata, up) ==
    LET sc == store_chunks(points, collection, up, chunks, metadata) IN
    /\ Len(points) < MaxPoints
    /\ points' = sc.points
    /\ last' = [call |-> "store_chunks", exc |-> sc.exc, queries |-> sc.upserts,
                count |-> sc.count, chunks |-> chunks, metadata |-> metadata]
    /\ report' = NoCall
    /\ UNCHANGED <<graph, collection, run, ApiVars>>

StoreChunksDirect ==
    \E chunks \in ChunkLists, metadata \in Metadatas, up \in BOOLEAN :
        StoreChunksCall(chunks, metadata, up)

\* init_collection(), called directly.
InitCollectionDirect ==
    \E upGet \in BOOLEAN, upCreate \in BOOLEAN :
        LET ic == init_collection(collection, upGet, upCreate) IN
        /\ collection' = ic.collection
        /\ last' = [call |-> "init_collection", exc |-> ic.exc, queries |-> 0]
        /\ report' = NoCall
        /\ UNCHANGED <<graph, points, run, ApiVars>>

\* A direct call of a store function, made before or after the call of
\* ingest_url.
DirectCall ==
    /\ run["r1"].pc \in {"idle", "returned", "raised"}
    /\ \/ \E up \in BOOLEAN : CreateEntityCall("Topic", "X", EmptyDict, up)
       \/ \E up \in BOOLEAN : CreateRelationshipCall("Article", "T", "ABOUT_TOPIC", "Topic", "X", up)
       \/ StoreSearchArticle
       \/ \E doc \in Documents, up \in BOOLEAN :
             StoreChunksCall(chunk_and_embed(doc.text, TRUE).chunks, doc.metadata, up)

\* ingest_url, once.
ScrapeOnce(r) ==
    /\ run[r].pc = "idle"
    /\ \E url \in URLS, fetched \in Fetched :
         run' = [run EXCEPT ![r] = OnScraped(url, scrape_url(url, fetched))]
    /\ UNCHANGED <<graph, points, collection, Others>>

IngestOnce(r) ==
    \/ ScrapeOnce(r)
    \/ ChunkAndEmbed(r)
    \/ InitCollection(r)
    \/ StoreChunks(r)
    \/ ExtractEntities(r)
    \/ StoreGraphStep(r)

StoresNext == DirectCall \/ IngestOnce("r1")

SpecStores == Init /\ [][StoresNext]_vars

\* C14: no step of ingest_url and no call of a store function, whether it
\* returns or raises, removes a node, an edge or a point: the nodes (by
\* type and name) and the edges of the graph stay, and the points of the
\* collection stay as they are, new ones coming after them.
C14_StoresOnlyGrow ==
    [][/\ NodeIds(graph) \subseteq NodeIds(graph')
       /\ graph.edges \subseteq graph'.edges
       /\ Len(points) <= Len(points')
       /\ \A i \in 1..Len(points) : points'[i] = points[i]]_vars

\* Direct calls and a successful ingest_url filled the stores, and the
\* last direct call failed: the nodes, edges and points are there.
C14_Witness ==
    /\ run["r1"].pc = "returned" /\ run["r1"].ret.status = "success"
    /\ last.call = "store_chunks" /\ last.exc = "UnexpectedResponse"
    /\ Len(points) >= 2
    /\ HasNode(graph, "Topic", "X")
    /\ HasNode(graph, "Technology", "Transformer")
    /\ Cardinality(graph.edges) >= 2

(***************************************************************************)
(* The end-to-end scenario: article "T" of example.com with Technology     *)
(* "Transformer" and Concept "self-attention".                             *)
(***************************************************************************)

\* The nodes as (type, name) and the edges as (relation, source, target).
NamedNodes(g) == {<<n.label, n.props.name>> : n \in g.nodes}
NamedEdges(g) == {<<e.rel, <<e.src[1], e.src[2]>>, <<e.dst[1], e.dst[2]>>>> : e \in g.edges}

ScenarioNodes ==
    {<<"Article", "T">>, <<"Technology", "Transformer">>, <<"Concept", "self-attention">>}
ScenarioEdges ==
    {<<"MENTIONS", <<"Article", "T">>, <<"Technology", "Transformer">>>>,
     <<"MENTIONS", <<"Article", "T">>, <<"Concept", "self-attention">>>>}

\* Run r ingested the document of the scenario into stores that were
\* empty: it returned success for title "T" of example.com with the
\* entities of the scenario, its graph store call returned, and the points
\* of the collection are the ones it stored.
IngestedScenario(r) ==
    /\ run[r].pc = "returned"
    /\ run[r].ret.status = "success"
    /\ run[r].ret.title = "T"
    /\ run[r].ret.url = "https://example.com/a"
    /\ run[r].ret.entities = TransformerBundle
    /\ run[r].log[6].out = None
    /\ Len(points) = run[r].ret.chunk_count

\* C15: after that ingestion the graph holds exactly the nodes Article "T",
\* Technology "Transformer", Concept "self-attention" and exactly the two
\* MENTIONS edges from the Article to the other two, and the collection
\* holds a point whose payload title is "T".
C15_ScenarioStores ==
    \A r \in Runs :
        IngestedScenario(r) =>
            /\ NamedNodes(graph) = ScenarioNodes
            /\ Cardinality(graph.nodes) = 3
            /\ NamedEdges(graph) = ScenarioEdges
            /\ Cardinality(graph.edges) = 2
            /\ \A n \in MatchNodes(graph, "Article", "T") : n.props.domain = "example.com"
            /\ \E i \in 1..Len(points) : points[i].payload.title = "T"

C15_Witness ==
    /\ IngestedScenario("r1")
    /\ Len(points) = 1
    /\ points[1].payload.text = "Transformers use self-attention."
    /\ Cardinality(graph.edges) = 2

\* The stores hold what ingesting the document of the scenario leaves:
\* its graph, and points that are all chunks of it.
ScenarioStores ==
    /\ NamedNodes(graph) = ScenarioNodes
    /\ NamedEdges(graph) = ScenarioEdges
    /\ points # << >>
    /\ \A i \in 1..Len(points) :
          /\ points[i].payload.title = "T"
          /\ points[i].payload.text = "Transformers use self-attention."

\* The position of the knowledge-graph title in a report.
GraphTitleAt(out) == CHOOSE i \in 1..Len(out) : out[i] = GraphTitle

\* C16: over these stores, when both passes are answered,
\* hybrid_search("self-attention", limit=3) returns a report whose vector
\* section has the text of the stored chunk and whose graph section lists
\* Article "T" with connected entity self-attention (Concept).
C16_ScenarioSearch ==
    (/\ ScenarioStores
     /\ report.call = "hybrid_search"
     /\ report.query = "self-attention" /\ report.limit = 3
     /\ report.vector.exc = None /\ report.graph.articlesExc = None)
    => LET out == report.output
           g == GraphTitleAt(out)
       IN /\ report.exc = None
          /\ \E i \in 3..(g - 1) :
                out[i] = [kind |-> "Content: ",
                          content |-> Chars["Transformers use self-attention."]]
          /\ \E i \in (g + 1)..(Len(out) - 2) :
                /\ out[i] = [kind |-> "article", title |-> "T"]
                /\ \E j \in {i + 1, i + 2} :
                      /\ j = i + 2 => out[i + 1].kind = "URL: "
                      /\ out[j].kind = "Connected Entities: "
                      /\ \E x \in 1..Len(out[j].entities) :
                            out[j].entities[x] = [name |-> "self-attention", type |-> "Concept"]

C16_Witness ==
    /\ ScenarioStores
    /\ report.call = "hybrid_search"
    /\ report.query = "self-attention" /\ report.limit = 3
    /\ report.vector.exc = None /\ report.graph.articlesExc = None
    /\ Len(report.vector.hits) = 2
    /\ Len(report.graph.records) = 1

(***************************************************************************)
(* hybrid_search: what the graph section and the summary say.              *)
(***************************************************************************)

\* C17: for each record of articles_query the report has the title of the
\* article, its URL, and the first 5 (all when fewer) of its collected
\* entities, each with its name, its type and the relation that links it
\* to the article.
C17_ArticleLinesShowRelation ==
    (report.call = "hybrid_search" /\ report.graph.articlesExc = None)
    => LET out == report.output
           records == report.graph.records
       IN \A j \in 1..Len(records) :
            \E i \in (GraphTitleAt(out) + 1)..(Len(out) - 4) :
               /\ out[i] = [kind |-> "article", title |-> records[j].title]
               /\ out[i + 1] = [kind |-> "URL: ", url |-> records[j].url]
               /\ out[i + 2].kind = "Connected Entities: "
               /\ Len(out[i + 2].entities)
                    = Min(EntitiesShown, Len(records[j].entities))
               /\ \A x \in 1..Len(out[i + 2].entities) :
                     out[i + 2].entities[x]
                       = [name |-> records[j].entities[x].name,
                          type |-> records[j].entities[x].type,
                          rel |-> records[j].entities[x].rel]

\* C18: every relationship line "(A) a -[R]-> (B) b" of the report is an
\* edge of the graph: an R edge from node a of type A to node b of type B.
C18_ArrowFollowsEdge ==
    report.call = "hybrid_search" =>
        \A i \in 1..Len(report.output) :
            report.output[i].kind = "relationship" =>
                <<report.output[i].relationship, report.output[i].left, report.output[i].right>>
                    \in NamedEdges(graph)

(***************************************************************************)
(* store_chunks and init_collection called directly.                       *)
(***************************************************************************)

VectorNext == StoreChunksDirect \/ InitCollectionDirect

SpecVector == Init /\ [][VectorNext]_vars

\* C19: store_chunks(chunks, metadata) with no chunk returns 0 and issues
\* no upsert; with n >= 1 chunks, when the store takes the upsert, it
\* returns n after one upsert, the stored points are as they were, and n
\* points follow them, the j-th with the text, index and embedding of the
\* j-th chunk and with the metadata, no two points of the collection
\* having the same id; when the store refuses the upsert nothing is stored.
C19_StoreChunksAddsPoints ==
    [][\A chunks \in ChunkLists, metadata \in Metadatas, up \in BOOLEAN :
         (last'.call = "store_chunks" /\ StoreChunksCall(chunks, metadata, up))
         => LET n == Len(chunks)
                old == Len(points)
            IN /\ n = 0 => /\ last'.exc = None /\ last'.count = 0 /\ last'.queries = 0
                           /\ points' = points
               /\ (n >= 1 /\ last'.exc # None) => points' = points
               /\ (n >= 1 /\ last'.exc = None)
                  => /\ last'.count = n /\ last'.queries = 1
                     /\ Len(points') = old + n
                     /\ \A i \in 1..old : points'[i] = points[i]
                     /\ \A j \in 1..n :
                           /\ points'[old + j].payload.text = chunks[j].text
                           /\ points'[old + j].payload.index = chunks[j].index
                           /\ points'[old + j].vector = chunks[j].embedding
                           /\ \A k \in DOMAIN metadata :
                                 points'[old + j].payload[k] = metadata[k]
                     /\ \A i \in 1..(old + n), j \in 1..(old + n) :
                           points'[i].id = points'[j].id => i = j]_vars

\* A call with two chunks returned 2 on a collection that held a point of
\* the same source URL: the collection holds the three.
C19_Witness ==
    /\ last.call = "store_chunks" /\ last.exc = None /\ last.count = 2
    /\ Len(points) = 3
    /\ points[1].payload.text = "Transformers use self-attention."
    /\ \A i \in 1..3 : points[i].payload.source_url = last.metadata.source_url

\* C20: the last line of the report says that no results were found when,
\* and only when, the vector pass gave no hit, articles_query gave no
\* record and concepts_query gave no record (a query that raised gave
\* none); otherwise it says that the search completed with results.
C20_SummaryTellsResults ==
    report.call = "hybrid_search" =>
        LET last_line == report.output[Len(report.output)]
            nothing == /\ report.vector.hits = << >>
                       /\ report.graph.records = << >>
                       /\ report.graph.concept_records = << >>
        IN /\ last_line \in {Summary(TRUE), Summary(FALSE)}
           /\ (last_line = Summary(FALSE)) = nothing

\* The vector pass failed and concepts_query raised after articles_query
\* had given a record: the summary says that results were found.
C20_Witness ==
    /\ report.call = "hybrid_search"
    /\ report.vector.exc # None
    /\ report.graph.conceptsExc # None
    /\ report.graph.records # << >>
    /\ report.output[Len(report.output)] = Summary(TRUE)

(***************************************************************************)
(* create_entity on a node that exists: the property map is overlaid.      *)
(***************************************************************************)

EntityTypes == {"Topic", "Article"}
EntityNames == {"X", "T"}
EntityProps ==
    {EmptyDict,
     [url |-> "https://example.com/a"],
     [url |-> "https://example.org/b"],
     [domain |-> "example.com"],
     [name |-> "Y", url |-> "https://example.com/a"]}

\* Calls of create_entity only, one after the other.
CreateEntityOverlay ==
    \E t \in EntityTypes, n \in EntityNames, p \in EntityProps, up \in BOOLEAN :
        CreateEntityCall(t, n, p, up)

SpecEntity == Init /\ [][CreateEntityOverlay]_vars

\* C21: create_entity(type, name, P) that returns on a database where the
\* node (type, name) exists with properties Q leaves that one node with the
\* values of P for the keys of P other than name, the values of Q for the
\* keys of Q that P does not have, and its name; every other node is as it
\* was; and the same call made once more changes nothing.
C21_CreateEntityOverlays ==
    [][\A t \in EntityTypes, n \in EntityNames, p \in EntityProps :
         (/\ last'.call = "create_entity" /\ last'.exc = None
          /\ HasNode(graph, t, n)
          /\ CreateEntityCall(t, n, p, TRUE))
         => LET before == MatchNodes(graph, t, n)
                after == MatchNodes(graph', t, n)
            IN /\ Cardinality(before) = 1 /\ Cardinality(after) = 1
               /\ \A q \in before, a \in after :
                     /\ a.props.name = n
                     /\ DOMAIN a.props = (DOMAIN q.props) \cup (DOMAIN p)
                     /\ \A k \in (DOMAIN p) \ {"name"} : a.props[k] = p[k]
                     /\ \A k \in (DOMAIN q.props) \ (DOMAIN p) : a.props[k] = q.props[k]
               /\ graph'.nodes \ after = graph.nodes \ before
               /\ graph'.edges = graph.edges
               /\ create_entity(graph', TRUE, t, n, p).g = graph']_vars

\* The one node of the database was written by calls with different
\* property maps: it has the url of one and the domain of another, and its
\* name is the name of the calls although one map had another name.
C21_Witness ==
    /\ last = [call |-> "create_entity", exc |-> None, queries |-> 1]
    /\ graph.nodes = {[label |-> "Topic", k |-> 1,
                       props |-> [name |-> "X", url |-> "https://example.org/b",
                                  domain |-> "example.com"]]}

(***************************************************************************)
(* backend/memory/persistent.py: the table episodes.  A row is an Episode; *)
(* the table is the sequence of its rows, oldest first, and created_at is  *)
(* a logical time.  db says how the database answers: "up", or the         *)
(* statement fails ("down"), or the commit fails ("commit").               *)
(***************************************************************************)

Episode(session_id, user_query, created_at) ==
    [session_id |-> session_id, user_query |-> user_query, created_at |-> created_at]

\* server_default=func.now(): later than the created_at of every row.
RECURSIVE Latest(_)
Latest(rows) ==
    IF rows = << >> THEN 0
    ELSE LET m == Latest(Tail(rows)) IN
         IF Head(rows).created_at > m THEN Head(rows).created_at ELSE m
Now(rows) == Latest(rows) + 1

\* store_episode(session_id, user_query, ...): [rows, exc].
store_episode(rows, db, session_id, user_query) ==
    IF db # "up" THEN [rows |-> rows, exc |-> "OperationalError"]
    ELSE [rows |-> Append(rows, Episode(session_id, user_query, Now(rows))), exc |-> None]

Reverse(s) == [i \in 1..Len(s) |-> s[Len(s) + 1 - i]]

\* get_all_episodes(limit): the limit latest rows, the latest first.
get_all_episodes(rows, db, limit) ==
    IF db = "down" THEN [rows |-> << >>, exc |-> "OperationalError"]
    ELSE [rows |-> SubSeq(Reverse(rows), 1, Min(limit, Len(rows))), exc |-> None]

\* delete_episodes_by_session with the filter on session_id dropped.
delete_all_episodes(rows, db, session_id) ==
    IF db = "down" THEN [rows |-> rows, ret |-> FALSE, exc |-> None, commits |-> 0]
    ELSE IF db = "commit" THEN [rows |-> rows, ret |-> FALSE, exc |-> None, commits |-> 1]
    ELSE [rows |-> << >>, ret |-> TRUE, exc |-> None, commits |-> 1]

\* delete_episodes_by_session(session_id): [rows, ret, exc, commits].  A
\* failure of the DELETE or of the commit is caught; leaving the with block
\* rolls back what was not committed.
delete_episodes_by_session(rows, db, session_id) ==
    LET OfOthers(row) == row.session_id # session_id IN
    IF db = "down" THEN [rows |-> rows, ret |-> FALSE, exc |-> None, commits |-> 0]
    ELSE IF db = "commit" THEN [rows |-> rows, ret |-> FALSE, exc |-> None, commits |-> 1]
    ELSE [rows |-> SelectSeq(rows, OfOthers), ret |-> TRUE, exc |-> None, commits |-> 1]

(***************************************************************************)
(* backend/api.py.  A handler runs until it awaits: an action is the part  *)
(* of a handler between two awaits.  req[c].pc is the await request c is   *)
(* at, "done" when it was answered (.status, .body).                       *)
(***************************************************************************)

SessionsLimit == 100
QueryShown == 100

\* What a handler answers: the frame of a request that is over.  exc is the
\* exception the handler caught and turned into the answer (None: none).
Answer(f, status, body, exc) ==
    [pc |-> "done", handler |-> f.handler, given |-> f.given,
     session_id |-> f.session_id, seen |-> f.seen,
     status |-> status, body |-> body, exc |-> exc]

\* raise HTTPException(status_code=500, detail=str(e))
ServerError(f, e) == Answer(f, 500, [detail |-> e], e)

\* ep.user_query[:100]
Shown(user_query) == SubSeq(Chars[user_query], 1, Min(QueryShown, Len(Chars[user_query])))

\* Lines 173-184 with "+= 1" replaced by "= 1".
GroupCountingOnce(sessions, ep) ==
    LET known == \E i \in 1..Len(sessions) : sessions[i].session_id = ep.session_id
        ss == IF known THEN sessions
              ELSE Append(sessions, [session_id |-> ep.session_id,
                                     created_at |-> ep.created_at,
                                     message_count |-> 0, last_query |-> << >>])
        at == CHOOSE i \in 1..Len(ss) : ss[i].session_id = ep.session_id
    IN [ss EXCEPT ![at].message_count = 1,
                  ![at].last_query = IF @ = << >> THEN Shown(ep.user_query) ELSE @]

\* Lines 173-184: one turn of the loop over the episodes.  sessions is the
\* dict of the handler as the sequence of its values, in insertion order.
Group(sessions, ep) ==
    LET known == \E i \in 1..Len(sessions) : sessions[i].session_id = ep.session_id
        ss == IF known THEN sessions
              ELSE Append(sessions, [session_id |-> ep.session_id,
                                     created_at |-> ep.created_at,
                                     message_count |-> 0, last_query |-> << >>])
        at == CHOOSE i \in 1..Len(ss) : ss[i].session_id = ep.session_id
    IN [ss EXCEPT ![at].message_count = @ + 1,
                  ![at].last_query = IF @ = << >> THEN Shown(ep.user_query) ELSE @]

RECURSIVE GroupAll(_, _)
GroupAll(sessions, eps) ==
    IF eps = << >> THEN sessions
    ELSE GroupAll(Group(sessions, Head(eps)), Tail(eps))

\* list_sessions(): [status, body, exc, episodes], episodes being what
\* get_all_episodes returned.
list_sessions(rows, db) ==
    LET got == get_all_episodes(rows, db, SessionsLimit) IN
    IF got.exc # None
      THEN [status |-> 500, body |-> [detail |-> got.exc], exc |-> got.exc, episodes |-> << >>]
      ELSE [status |-> 200, body |-> GroupAll(<< >>, got.rows), exc |-> None,
            episodes |-> got.rows]

\* An event of runner.run_async: its author (None: none) and its content
\* (NoContent: none), whose parts are a list of parts or null; a part is its
\* text (None for a part that is not text, a function call say).  tool is
\* the tool the agent ran before it emitted the event (None: none).  The
\* stream may also end in an exception.
Event(author, content, tool) ==
    [kind |-> "event", author |-> author, content |-> content, tool |-> tool]
Content(parts) == [t |-> "content", parts |-> parts]
NoContent == [t |-> "none"]
Part(text) == [text |-> text]
RaiseEvent == [kind |-> "raise"]

\* Lines 150-152 with the first text kept instead of the last.
RECURSIVE FirstText(_, _)
FirstText(parts, final_response) ==
    IF parts = << >> THEN final_response
    ELSE FirstText(Tail(parts),
                   IF final_response = "" /\ Head(parts).text \notin {None, ""}
                     THEN Head(parts).text ELSE final_response)

\* Lines 150-152: final_response after the loop over the parts.
RECURSIVE LastText(_, _)
LastText(parts, final_response) ==
    IF parts = << >> THEN final_response
    ELSE LastText(Tail(parts),
                  IF Head(parts).text \notin {None, ""} THEN Head(parts).text
                  ELSE final_response)

\* Lines 143-152: the frame after one event of the stream.  A content
\* whose parts are null makes the for statement raise.
OnEvent(f, event) ==
    IF event.kind = "raise" THEN ServerError(f, "RuntimeError")
    ELSE LET path == IF event.author # None
                          /\ \A i \in 1..Len(f.agent_path) : f.agent_path[i] # event.author
                       THEN Append(f.agent_path, event.author) ELSE f.agent_path
             seen == Append(f.seen, event)
         IN IF event.content = NoContent
              THEN [f EXCEPT !.agent_path = path, !.seen = seen, !.events = Tail(@)]
            ELSE IF event.content.parts = Null
              THEN ServerError([f EXCEPT !.seen = seen], "TypeError")
            ELSE [f EXCEPT !.agent_path = path, !.seen = seen, !.events = Tail(@),
                           !.final_response = LastText(event.content.parts.v, @)]

\* Lines 154-158.
ChatResponse(f) ==
    Answer(f, 200, [session_id |-> f.session_id, response |-> f.final_response,
                    agent_path |-> f.agent_path], None)

\* Lines 97-103 with the test of line 97 dropped: a Runner per call.
get_runner_always_new(active, made, session_id) ==
    [active_runners |-> [s \in (DOMAIN active) \cup {session_id} |->
                            IF s = session_id THEN made + 1 ELSE active[s]],
     made |-> made + 1, runner |-> made + 1]

\* Lines 97-103 of get_runner: [active_runners, made, runner].  A Runner is
\* the number of its construction.
get_runner(active, made, session_id) ==
    IF session_id \in DOMAIN active
      THEN [active_runners |-> active, made |-> made, runner |-> active[session_id]]
      ELSE [active_runners |-> [s \in (DOMAIN active) \cup {session_id} |->
                                   IF s = session_id THEN made + 1 ELSE active[s]],
            made |-> made + 1, runner |-> made + 1]

\* del d[k]
Without(d, k) == [s \in (DOMAIN d) \ {k} |-> d[s]]

\* d[k] = v
With(d, k, v) == [s \in (DOMAIN d) \cup {k} |-> IF s = k THEN v ELSE d[s]]

(***************************************************************************)
(* The HTTP API: the actions of the request of client c.                   *)
(***************************************************************************)

\* The most Runner objects constructed and messages of a session when a
\* step that adds one is taken, and the latest created_at of an episode.
MaxRunners == 2
MaxEpisodes == 2
MaxHistory == 2

SessionIds == {"s1", "s2"}

\* str(uuid.uuid4()): an id no request names.
Uuid == "uuid-1"

\* Whether nothing of the API holds session id s.
Unused(s) ==
    /\ s \notin (DOMAIN session_service) \cup (DOMAIN active_runners)
    /\ \A d \in Clients : IF req[d].pc = "idle" THEN TRUE ELSE req[d].session_id # s
    /\ \A i \in 1..Len(episodes) : episodes[i].session_id # s

\* Whether client c can send a request: it has none in flight.
CanSend(c) == req[c].pc \in {"idle", "done"}

\* POST /chat, line 115.  given is request.session_id (None: none given).
ChatRequest(c, given, message) ==
    /\ CanSend(c)
    /\ IF given = None THEN Unused(Uuid) ELSE TRUE
    /\ req' = [req EXCEPT ![c] =
                 [pc |-> "get_session", handler |-> "chat", given |-> given,
                  session_id |-> IF given = None THEN Uuid ELSE given,
                  message |-> message, runner |-> 0, agent_path |-> << >>,
                  final_response |-> "", events |-> << >>, seen |-> << >>]]
    /\ UNCHANGED <<session_service, active_runners, runners_made, episodes, StoreVars>>

\* get_runner, lines 86-88: session_service.get_session(session_id) returns
\* or raises, as the session service decides.
GetSession(c) ==
    /\ req[c].pc = "get_session"
    /\ \E raises \in BOOLEAN :
          req' = [req EXCEPT ![c].pc = IF raises THEN "create_session" ELSE "get_runner"]
    /\ UNCHANGED <<session_service, active_runners, runners_made, episodes, StoreVars>>

\* get_runner, lines 89-95: create_session makes a session without
\* history.  When the id names a session already, the service replaces it
\* by the new one or refuses (AlreadyExistsError), as its version decides.
CreateSession(c) ==
    /\ req[c].pc = "create_session"
    /\ \E replaces \in BOOLEAN :
          IF req[c].session_id \notin DOMAIN session_service \/ replaces
            THEN /\ session_service' = With(session_service, req[c].session_id, << >>)
                 /\ req' = [req EXCEPT ![c].pc = "get_runner"]
            ELSE /\ session_service' = session_service
                 /\ req' = [req EXCEPT ![c] = ServerError(@, "AlreadyExistsError")]
    /\ UNCHANGED <<active_runners, runners_made, episodes, StoreVars>>

\* get_runner, lines 97-103, and chat up to the call of run_async.
GetRunner(c) ==
    /\ req[c].pc = "get_runner"
    /\ req[c].session_id \in DOMAIN active_runners \/ runners_made < MaxRunners
    /\ LET got == get_runner(active_runners, runners_made, req[c].session_id) IN
       /\ active_runners' = got.active_runners
       /\ runners_made' = got.made
       /\ req' = [req EXCEPT ![c].pc = "run_async", ![c].runner = got.runner]
    /\ UNCHANGED <<session_service, episodes, StoreVars>>

\* runner.run_async(session_id, user_id, new_message): the runner raises
\* when the service has no such session, else it adds the message to the
\* session and the agent starts on a stream of events.
RunAsync(c, stream) ==
    /\ req[c].pc = "run_async"
    /\ IF req[c].session_id \notin DOMAIN session_service
         THEN /\ req' = [req EXCEPT ![c] = ServerError(@, "ValueError")]
              /\ session_service' = session_service
         ELSE /\ Len(session_service[req[c].session_id]) < MaxHistory
              /\ session_service' = [session_service EXCEPT
                                        ![req[c].session_id] = Append(@, req[c].message)]
              /\ req' = [req EXCEPT ![c].pc = "events", ![c].events = stream]
    /\ UNCHANGED <<active_runners, runners_made, episodes, StoreVars>>

\* Lines 138-152: one event of the stream.  The agent ran store_interaction
\* before it when the event says so (memory_tool.py lines 30-44: a failure
\* of the database is caught).
NextEvent(c) ==
    /\ req[c].pc = "events" /\ req[c].events # << >>
    /\ LET event == Head(req[c].events) IN
       /\ IF event.kind = "event" /\ event.tool = "store_interaction"
            THEN /\ Now(episodes) <= MaxEpisodes
                 /\ \E db \in {"up", "down"} :
                       episodes' = store_episode(episodes, db, req[c].session_id,
                                                 req[c].message).rows
            ELSE episodes' = episodes
       /\ req' = [req EXCEPT ![c] = OnEvent(@, event)]
    /\ UNCHANGED <<session_service, active_runners, runners_made, StoreVars>>

\* Lines 154-158: the stream is over.
ChatReturn(c) ==
    /\ req[c].pc = "events" /\ req[c].events = << >>
    /\ req' = [req EXCEPT ![c] = ChatResponse(@)]
    /\ UNCHANGED <<session_service, active_runners, runners_made, episodes, StoreVars>>

\* GET /sessions: the handler awaits nothing.
ListSessions(c) ==
    /\ CanSend(c)
    /\ \E db \in {"up", "down"} :
          LET r == list_sessions(episodes, db) IN
          req' = [req EXCEPT ![c] =
                    Answer([handler |-> "list_sessions", given |-> None,
                            session_id |-> None, seen |-> r.episodes],
                           r.status, r.body, r.exc)]
    /\ UNCHANGED <<session_service, active_runners, runners_made, episodes, StoreVars>>

\* DELETE /sessions/{session_id}, lines 218-232: the handler awaits nothing.
DeleteSession(c, session_id, db) ==
    LET del == delete_episodes_by_session(episodes, db, session_id) IN
    /\ CanSend(c)
    /\ active_runners' = IF session_id \in DOMAIN active_runners
                           THEN Without(active_runners, session_id) ELSE active_runners
    /\ episodes' = del.rows
    /\ req' = [req EXCEPT ![c] =
                 Answer([handler |-> "delete_session", given |-> session_id,
                         session_id |-> session_id, seen |-> << >>],
                        200,
                        [message |-> IF del.ret THEN <<"Session ", session_id, " deleted">>
                                     ELSE <<"Session ", session_id, " cleared from memory">>],
                        None)]
    /\ UNCHANGED <<session_service, runners_made, StoreVars>>

(***************************************************************************)
(* POST /chat: the requests of one client, one after the other.            *)
(***************************************************************************)

ChatStreams ==
    {<< >>,
     <<Event("orchestrator", Content(List(<<Part("final")>>)), None)>>,
     <<Event("planner", Content(List(<<Part("draft")>>)), None),
       Event("summarizer", Content(List(<<Part("final")>>)), "store_interaction")>>,
     <<Event("orchestrator", Content(List(<<Part("draft"), Part("final")>>)), None)>>,
     <<Event("orchestrator", Content(List(<<Part("final"), Part(None)>>)), None),
       Event(None, NoContent, None)>>,
     <<Event("orchestrator", Content(List(<<Part("final")>>)), None),
       Event("orchestrator", Content(List(<<Part("")>>)), None)>>,
     <<Event("orchestrator", Content(List(<<Part("draft")>>)), None), RaiseEvent>>,
     <<Event("orchestrator", Content(Null), None)>>}

ChatNext ==
    \/ \E given \in {"s1", None} : ChatRequest("c1", given, "X")
    \/ GetSession("c1")
    \/ CreateSession("c1")
    \/ GetRunner("c1")
    \/ \E stream \in ChatStreams : RunAsync("c1", stream)
    \/ NextEvent("c1")
    \/ ChatReturn("c1")

SpecChat == Init /\ [][ChatNext]_vars

\* The parts of the events seen that carry a text, as (event, part)
\* positions in the stream.
TextParts(seen) ==
    {<<i, j>> \in (1..Len(seen)) \X (1..2) :
        /\ seen[i].content # NoContent
        /\ j <= Len(seen[i].content.parts.v)
        /\ seen[i].content.parts.v[j].text \notin {None, ""}}

UserQueries == {"X", ""}
Databases == {"up", "down", "commit"}

\* store_episode(session_id, user_query, ...), called directly.
StoreEpisodeCall(session_id, user_query, db) ==
    LET r == store_episode(episodes, db, session_id, user_query) IN
    /\ Now(episodes) <= MaxEpisodes
    /\ episodes' = r.rows
    /\ last' = [call |-> "store_episode", session_id |-> session_id, exc |-> r.exc]
    /\ UNCHANGED <<graph, points, collection, run, report,
                   session_service, active_runners, runners_made, req>>

\* delete_episodes_by_session(session_id), called directly.
DeleteEpisodesCall(session_id, db) ==
    LET r == delete_episodes_by_session(episodes, db, session_id) IN
    /\ episodes' = r.rows
    /\ last' = [call |-> "delete_episodes_by_session", session_id |-> session_id,
                ret |-> r.ret, exc |-> r.exc, commits |-> r.commits]
    /\ UNCHANGED <<graph, points, collection, run, report,
                   session_service, active_runners, runners_made, req>>

EpisodesNext ==
    \/ \E s \in SessionIds, q \in UserQueries, db \in {"up", "down"} :
          StoreEpisodeCall(s, q, db)
    \/ \E s \in SessionIds, db \in Databases : DeleteEpisodesCall(s, db)
    \/ ListSessions("c1")

SpecEpisodes == Init /\ [][EpisodesNext]_vars

\* The number of the rows of session s.
RowsOf(rows, s) == Cardinality({i \in 1..Len(rows) : rows[i].session_id = s})

RECURSIVE SumOfCounts(_)
SumOfCounts(body) ==
    IF body = << >> THEN 0 ELSE Head(body).message_count + SumOfCounts(Tail(body))

\* C23: the answer of GET /sessions has exactly one entry for each session
\* id among the episodes get_all_episodes returned and none for any other,
\* the message_count of an entry is the number of those episodes with its
\* session id, and the counts add up to the number of those episodes.
C23_OneEntryPerSession ==
    \A c \in Clients :
        (req[c].pc = "done" /\ req[c].handler = "list_sessions" /\ req[c].status = 200)
        => LET eps == req[c].seen
               body == req[c].body
           IN /\ \A i \in 1..Len(eps) :
                    Cardinality({j \in 1..Len(body) :
                                    body[j].session_id = eps[i].session_id}) = 1
              /\ \A j \in 1..Len(body) :
                    /\ RowsOf(eps, body[j].session_id) >= 1
                    /\ body[j].message_count = RowsOf(eps, body[j].session_id)
              /\ SumOfCounts(body) = Len(eps)

\* Two episodes of session s1 were returned: the answer is one entry that
\* counts them both.
C23_Witness ==
    /\ req["c1"].pc = "done" /\ req["c1"].handler = "list_sessions"
    /\ req["c1"].status = 200
    /\ Len(req["c1"].seen) = 2
    /\ Len(req["c1"].body) = 1
    /\ req["c1"].body[1].session_id = "s1"
    /\ req["c1"].body[1].message_count = 2

\* The rows of session s, in their order.
RowsOfSession(rows, s) ==
    LET OfSession(row) == row.session_id = s IN SelectSeq(rows, OfSession)

\* C25: delete_episodes_by_session(s) on a database that answers removes
\* every episode of session s and no other (the episodes of each other
\* session are as they were, in their order), commits once and returns
\* True; when the database fails it returns False, raises nothing and the
\* table is as it was.
C25_DeleteBySession ==
    [][\A s \in SessionIds, db \in Databases :
         (last'.call = "delete_episodes_by_session" /\ DeleteEpisodesCall(s, db))
         => /\ last'.exc = None
            /\ db = "up" =>
                 /\ last'.ret = TRUE /\ last'.commits = 1
                 /\ RowsOf(episodes', s) = 0
                 /\ Len(episodes') = Len(episodes) - RowsOf(episodes, s)
                 /\ \A o \in SessionIds \ {s} :
                       RowsOfSession(episodes', o) = RowsOfSession(episodes, o)
            /\ db # "up" => (last'.ret = FALSE /\ episodes' = episodes)]_vars

\* The episode of session s1 was deleted and the later episode of session
\* s2 is the one row of the table.
C25_Witness ==
    /\ last.call = "delete_episodes_by_session" /\ last.session_id = "s1"
    /\ last.ret = TRUE
    /\ Len(episodes) = 1
    /\ episodes[1].session_id = "s2" /\ episodes[1].created_at = 2

(***************************************************************************)
(* POST /chat and DELETE /sessions/{id}: the requests of two clients,      *)
(* interleaved at the awaits of the handlers.                              *)
(***************************************************************************)

\* The stream of an agent that answers, and of one that stores the
\* interaction before it answers.
Answering == <<Event("orchestrator", Content(List(<<Part("final")>>)), None)>>
Storing == <<Event("orchestrator", Content(List(<<Part("final")>>)), "store_interaction")>>

\* The steps of the requests of the clients C, the agent emitting stream.
ApiNext(C, stream) ==
    \E c \in C :
        \/ \E s \in SessionIds : ChatRequest(c, s, "X")
        \/ GetSession(c)
        \/ CreateSession(c)
        \/ GetRunner(c)
        \/ RunAsync(c, stream)
        \/ NextEvent(c)
        \/ ChatReturn(c)
        \/ \E s \in SessionIds, db \in {"up", "down"} : DeleteSession(c, s, db)

\* Two clients.
SpecApi == Init /\ [][ApiNext(Clients, Answering)]_vars

\* One client, whose requests come one after the other.
SpecDelete == Init /\ [][ApiNext({"c1"}, Storing)]_vars

\* C24: when DELETE /sessions/{id} has been answered, active_runners has no
\* runner for id, the table episodes has no episode of id and the session
\* service has no session id (so that a later chat of id starts from a
\* session without history).
C24_DeleteRemovesSession ==
    [][\A c \in Clients, s \in SessionIds, db \in {"up", "down"} :
         (CanSend(c) /\ DeleteSession(c, s, db))
         => /\ s \notin DOMAIN active_runners'
            /\ RowsOf(episodes', s) = 0
            /\ s \notin DOMAIN session_service']_vars

\* Request c holds a Runner: it is past get_runner and not answered.
HoldsRunner(c) == req[c].pc \in {"run_async", "events"}

\* C30: get_runner hands a chat the Runner that active_runners holds for
\* its session id, constructing one, which no other request holds, only
\* when there is none; a Runner stays in active_runners, the same, through
\* every step of every request but a DELETE of its session id; and a DELETE
\* removes the Runner of its session id and no other.
C30_OneRunnerPerSession ==
    [][/\ \A c \in Clients :
            (req[c].pc = "get_runner" /\ GetRunner(c))
            => LET s == req[c].session_id IN
               /\ req'[c].runner = active_runners'[s]
               /\ s \in DOMAIN active_runners => active_runners' = active_runners
               /\ s \notin DOMAIN active_runners =>
                    /\ \A o \in DOMAIN active_runners :
                          active_runners[o] # req'[c].runner
                    /\ \A d \in Clients \ {c} :
                          HoldsRunner(d) => req[d].runner # req'[c].runner
       /\ \A s \in DOMAIN active_runners :
            \/ \E c \in Clients, db \in {"up", "down"} :
                  CanSend(c) /\ DeleteSession(c, s, db)
            \/ s \in DOMAIN active_runners' /\ active_runners'[s] = active_runners[s]
       /\ \A c \in Clients, s \in SessionIds, db \in {"up", "down"} :
            (CanSend(c) /\ DeleteSession(c, s, db))
            => /\ s \notin DOMAIN active_runners'
               /\ \A o \in (DOMAIN active_runners) \ {s} :
                     o \in DOMAIN active_runners' /\ active_runners'[o] = active_runners[o]
      ]_vars

\* Two chats of session s1 are running at once on the one Runner of s1,
\* which was constructed after the Runner of session s2.
C30_Witness ==
    /\ \A c \in Clients : HoldsRunner(c) /\ req[c].session_id = "s1" /\ req[c].runner = 2
    /\ active_runners = [s1 |-> 2, s2 |-> 1]
    /\ runners_made = 2

(***************************************************************************)
(* ingest_url: the order of its steps.                                     *)
(***************************************************************************)

StepOrder ==
    <<"scrape_url", "chunk_and_embed", "init_collection", "store_chunks",
      "extract_entities", "store_article_with_entities">>

\* C26: the calls a run of ingest_url has made are the first of scrape,
\* chunk and embed, ensure the collection, store the vectors, extract the
\* entities, store the graph, in this order and once each; the vector store
\* is called only after chunk_and_embed gave at least one chunk; the
\* extractor is called and the graph written only after store_chunks of
\* this run returned; and a step of the run changes the collection only in
\* its vector calls and the graph only in its graph call.
C26_StepsInOrder ==
    [][\A r \in {"r1"} :
         StepOf(r) =>
           LET log == run'[r].log IN
           /\ Len(log) <= Len(StepOrder)
           /\ \A i \in 1..Len(log) : log[i].call = StepOrder[i]
           /\ Len(log) >= 3 => log[2].out = "chunks"
           /\ Len(log) >= 5 => log[4].out = None
           /\ run'[r].pc = "store_article_with_entities" =>
                 (Len(log) = 5 /\ log[4].out = None)
           /\ run'[r].pc = "store_chunks" => run'[r].chunks # << >>
           /\ (points' # points \/ collection' # collection) =>
                 (run[r].pc \in {"init_collection", "store_chunks"}
                    /\ run[r].log[2].out = "chunks")
           /\ graph' # graph =>
                 (run[r].pc = "store_article_with_entities"
                    /\ run[r].log[4] = Entry("store_chunks", None))]_vars

\* A run made the six calls and returned: the points and the graph are
\* stored.
C26_Witness ==
    /\ run["r1"].pc = "returned"
    /\ Len(run["r1"].log) = 6
    /\ \A i \in 1..6 : run["r1"].log[i].call = StepOrder[i]
    /\ run["r1"].log[6].out = None
    /\ Len(points) = 2
    /\ Cardinality(graph.edges) = 2

(***************************************************************************)
(* hybrid_search: the terms of the graph pass.                             *)
(***************************************************************************)

\* The whitespace-delimited tokens of cs as (first, last) positions: the
\* runs without whitespace that whitespace or an end of cs bounds.
Tokens(cs) ==
    {t \in (1..Len(cs)) \X (1..Len(cs)) :
        /\ t[1] <= t[2]
        /\ \A i \in t[1]..t[2] : cs[i] \notin Whitespace
        /\ t[1] = 1 \/ cs[t[1] - 1] \in Whitespace
        /\ t[2] = Len(cs) \/ cs[t[2] + 1] \in Whitespace}

\* C27: the terms of the graph pass are the whitespace-delimited tokens of
\* the raw query that have more than 3 characters, in their order; and when
\* the query has no such token, whatever the graph holds, the two queries
\* give no record and the report has no article line and no relationship
\* line, and says that no related article was found when the first query
\* was answered.
C27_TermsAreLongTokens ==
    report.call = "hybrid_search" =>
        LET cs == Chars[report.query]
            terms == query_terms(report.query)
            long == {t \in Tokens(cs) : t[2] - t[1] + 1 > 3}
        IN /\ Len(terms) = Cardinality(long)
           /\ \A t \in long :
                 terms[Cardinality({u \in long : u[1] <= t[1]})] = SubSeq(cs, t[1], t[2])
           /\ long = {} =>
                 /\ report.graph.records = << >>
                 /\ report.graph.concept_records = << >>
                 /\ \A i \in 1..Len(report.output) :
                       report.output[i].kind \notin {"article", "relationship"}
                 /\ report.graph.articlesExc = None =>
                       \E i \in 1..Len(report.output) : report.output[i] = NoArticles

\* The query "T X" has two tokens, none long enough: the graph pass found
\* nothing although the graph has the Article "T" and the Topic "X".
C27_Witness ==
    /\ report.call = "hybrid_search" /\ report.query = "T X"
    /\ report.graph.articlesExc = None /\ report.graph.conceptsExc = None
    /\ HasNode(graph, "Article", "T") /\ HasNode(graph, "Topic", "X")
    /\ graph.edges # {}
    /\ \E i \in 1..Len(report.output) : report.output[i] = NoArticles

(***************************************************************************)
(* chunk_and_embed, as ingest_url calls it.                                *)
(***************************************************************************)

\* C28: for a text the chunker cuts into n >= 1 chunks, chunk_and_embed,
\* when the embedder runs, returns n records, the i-th with index i - 1,
\* the text of the i-th chunk and the embedding of that text as a document,
\* also when n = 1; for a blank text it returns the empty list and does not
\* call the embedder (whether the embedder would run or not).
C28_ChunksCarryOwnEmbedding ==
    [][\A r \in {"r1"} :
         (run[r].pc = "chunk_and_embed" /\ StepOf(r))
         => LET text == run[r].result.text
                n == IF IsBlank(text) THEN 0 ELSE Len(SemanticChunks[text])
                out == run'[r].log[2].out
            IN /\ n = 0 =>
                    /\ out = "no chunks"
                    /\ \A embedUp \in BOOLEAN :
                          chunk_and_embed(text, embedUp)
                            = [chunks |-> << >>, exc |-> None, embedCalls |-> 0]
               /\ n >= 1 => out \in {"chunks", "RuntimeError"}
               /\ (n >= 1 /\ out = "chunks") =>
                    /\ Len(run'[r].chunks) = n
                    /\ \A i \in 1..n :
                          /\ run'[r].chunks[i].index = i - 1
                          /\ run'[r].chunks[i].text = SemanticChunks[text][i]
                          /\ run'[r].chunks[i].embedding
                               = Encode("search_document: ", SemanticChunks[text][i])]_vars

\* The document of one chunk was chunked and embedded: the record carries
\* the vector of its text, not a component of it.
C28_Witness ==
    /\ run["r1"].pc = "init_collection"
    /\ Len(run["r1"].chunks) = 1
    /\ run["r1"].chunks[1].index = 0
    /\ run["r1"].chunks[1].embedding
         = Encode("search_document: ", "Transformers use self-attention.")

(***************************************************************************)
(* ingest_url: documents that share a title.                               *)
(***************************************************************************)

\* The relation and the entity type store_article_with_entities uses for
\* each list of the bundle.
EdgeOfKey ==
    [authors |-> <<"WRITTEN_BY", "Author">>, topics |-> <<"ABOUT_TOPIC", "Topic">>,
     technologies |-> <<"MENTIONS", "Technology">>, companies |-> <<"MENTIONS", "Company">>,
     concepts |-> <<"MENTIONS", "Concept">>]

\* C29: no step of an ingestion removes an edge or changes a stored point;
\* and when an ingestion whose graph call returned is over, there is one
\* Article node of its title, with its url and its domain (those of the
\* later ingestion when an earlier document had the title), with an edge
\* to each entity of its bundle next to the edges the node had, and the
\* collection holds its chunks as points with its url as source_url next
\* to the points of the earlier documents, which keep theirs.
C29_SameTitleSharesArticle ==
    [][\A r \in {"r1"} :
         StepOf(r) =>
           /\ graph.edges \subseteq graph'.edges
           /\ Len(points') >= Len(points)
           /\ \A i \in 1..Len(points) : points'[i] = points[i]
           /\ (run'[r].pc = "returned" /\ Len(run'[r].log) = 6
                 /\ run'[r].log[6].out = None)
              => LET title == run'[r].ret.title
                     url == run'[r].ret.url
                     entities == run'[r].ret.entities
                 IN /\ Cardinality(MatchNodes(graph', "Article", title)) = 1
                    /\ \A n \in MatchNodes(graph', "Article", title) :
                          n.props.url = url /\ n.props.domain = Netloc[url]
                    /\ \A k \in (DOMAIN entities) \cap (DOMAIN EdgeOfKey) :
                          \A i \in 1..Len(entities[k].v) :
                             <<EdgeOfKey[k][1], <<"Article", title>>,
                               <<EdgeOfKey[k][2], entities[k].v[i]>>>>
                                \in NamedEdges(graph')
                    /\ Cardinality({i \in 1..Len(points') :
                                      /\ points'[i].payload.source_url = url
                                      /\ points'[i].payload.title = title})
                         >= run'[r].ret.chunk_count]_vars

\* Title "T" was ingested from example.com with a Technology and a Concept
\* and then from example.org with a Topic: the one Article node has the
\* url and domain of example.org and the three edges, and the collection
\* has a point of each url.
C29_Witness ==
    /\ run["r1"].pc = "returned" /\ run["r1"].ret.status = "success"
    /\ run["r1"].ret.url = "https://example.org/b"
    /\ MatchNodes(graph, "Article", "T")
         = {[label |-> "Article", k |-> 1,
             props |-> [name |-> "T", url |-> "https://example.org/b",
                        domain |-> "example.org"]]}
    /\ NamedEdges(graph)
         = ScenarioEdges \cup {<<"ABOUT_TOPIC", <<"Article", "T">>, <<"Topic", "X">>>>}
    /\ Len(points) = 2
    /\ points[1].payload.source_url = "https://example.com/a"
    /\ points[2].payload.source_url = "https://example.org/b"
    /\ points[1].payload.title = "T" /\ points[2].payload.title = "T"

=============================================================================
